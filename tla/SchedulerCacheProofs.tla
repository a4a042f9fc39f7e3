------------------------ MODULE SchedulerCacheProofs ------------------------
(***************************************************************************)
(* Proofs about SchedulerCache, for any set of pods, nodes and images.     *)
(*                                                                         *)
(* The store (cache.nodes with its linked list) changes only through       *)
(* Touched and Dropped, so its own invariant StoreOK is proved once for    *)
(* those two and then carried through the operations.                      *)
(***************************************************************************)
EXTENDS SchedulerCache, TLAPS

-----------------------------------------------------------------------------
(* The linked list.                                                        *)

\* Unlinking an item keeps the others, in order.
LEMMA UnlinkedType ==
    ASSUME NEW list \in Seq(Nodes), NEW n \in Nodes
    PROVE  Unlinked(list, n) \in Seq(Nodes)
<1>1. CASE Linked(list, n)
  <2> DEFINE k == CHOOSE k \in 1..Len(list) : list[k] = n
  <2>1. k \in 1..Len(list)
    BY <1>1 DEF Linked
  <2>2. Unlinked(list, n) = [i \in 1..(Len(list) - 1) |->
                                IF i < k THEN list[i] ELSE list[i + 1]]
    BY <1>1 DEF Unlinked
  <2>3. Len(list) - 1 \in Nat
    BY <2>1
  <2>4. \A i \in 1..(Len(list) - 1) :
           (IF i < k THEN list[i] ELSE list[i + 1]) \in Nodes
    BY <2>1
  <2> QED BY <2>2, <2>3, <2>4
<1>2. CASE ~ Linked(list, n)
  BY <1>2 DEF Unlinked
<1> QED BY <1>1, <1>2

\* Every element of the result stands in the list, and f gives its old place:
\* f grows, and skips the place of n only.
LEMMA UnlinkedOrder ==
    ASSUME NEW list \in Seq(Nodes), NEW n \in Nodes
    PROVE  LET u == Unlinked(list, n) IN
           \E f \in [1..Len(u) -> 1..Len(list)] :
              /\ \A i \in 1..Len(u) : u[i] = list[f[i]]
              /\ \A i, j \in 1..Len(u) : i < j => f[i] < f[j]
              /\ \A k \in 1..Len(list) : list[k] # n => \E i \in 1..Len(u) : f[i] = k
<1> DEFINE u == Unlinked(list, n)
<1>1. CASE Linked(list, n)
  <2> DEFINE k == CHOOSE k \in 1..Len(list) : list[k] = n
             f == [i \in 1..(Len(list) - 1) |-> IF i < k THEN i ELSE i + 1]
  <2>1. k \in 1..Len(list) /\ list[k] = n
    BY <1>1 DEF Linked
  <2>2. u = [i \in 1..(Len(list) - 1) |->
                IF i < k THEN list[i] ELSE list[i + 1]]
    BY <1>1 DEF Unlinked
  <2>3. Len(list) \in Nat /\ Len(list) - 1 \in Nat
    BY <2>1
  <2>4. Len(u) = Len(list) - 1
    BY <2>2, <2>3, UnlinkedType
  <2> HIDE DEF k
  <2>5. f \in [1..Len(u) -> 1..Len(list)]
    BY <2>1, <2>3, <2>4
  <2>6. \A i \in 1..Len(u) : u[i] = list[f[i]]
    BY <2>1, <2>2, <2>3, <2>4
  <2>7. \A i, j \in 1..Len(u) : i < j => f[i] < f[j]
    BY <2>1, <2>3, <2>4
  <2>8. ASSUME NEW m \in 1..Len(list), list[m] # n
        PROVE  \E i \in 1..Len(u) : f[i] = m
    <3>1. m # k
      BY <2>1, <2>8
    <3>2. CASE m < k
      <4>1. m \in 1..Len(u) /\ f[m] = m
        BY <2>1, <2>3, <2>4, <3>2
      <4> QED BY <4>1
    <3>3. CASE m > k
      <4>1. m - 1 \in 1..Len(u) /\ f[m - 1] = m
        BY <2>1, <2>3, <2>4, <3>3
      <4> QED BY <4>1
    <3>4. m < k \/ m > k
      BY <2>1, <2>3, <3>1
    <3> QED BY <3>2, <3>3, <3>4
  <2> QED BY <2>5, <2>6, <2>7, <2>8
<1>2. CASE ~ Linked(list, n)
  <2> DEFINE f == [i \in 1..Len(list) |-> i]
  <2>1. u = list
    BY <1>2 DEF Unlinked
  <2>2. f \in [1..Len(u) -> 1..Len(list)]
    BY <2>1
  <2> QED BY <2>1, <2>2
<1> QED BY <1>1, <1>2

-----------------------------------------------------------------------------
(* The store.                                                              *)

ItemGen(s, n) == s.nodes[n].gen

\* The list threads the items, newest first, and no generation is ahead of the
\* counter.
StoreOK(s) ==
    /\ s \in Store
    /\ \A k \in 1..Len(s.list) : s.nodes[s.list[k]] # NoItem
    /\ \A n \in Nodes : s.nodes[n] # NoItem => Linked(s.list, n)
    /\ \A i, j \in 1..Len(s.list) :
          i < j => ItemGen(s, s.list[i]) > ItemGen(s, s.list[j])
    /\ \A n \in Nodes : s.nodes[n] # NoItem => ItemGen(s, n) <= s.generation

\* An item is in one place only.
LEMMA PlacesDiffer ==
    ASSUME NEW s, StoreOK(s), NEW i \in 1..Len(s.list), NEW j \in 1..Len(s.list),
           s.list[i] = s.list[j]
    PROVE  i = j
<1>1. /\ s.list \in Seq(Nodes)
      /\ s.nodes \in [Nodes -> NodeInfoType \cup {NoItem}]
  BY DEF StoreOK, Store
<1>2. s.nodes[s.list[i]] \in NodeInfoType
  BY <1>1 DEF StoreOK
<1>3. ItemGen(s, s.list[i]) \in Nat
  BY <1>2 DEF NodeInfoType, ItemGen
<1>4. ~ (i < j) /\ ~ (j < i)
  BY <1>3 DEF StoreOK
<1> QED BY <1>1, <1>4

\* A dropped item leaves the store well formed: the map loses its key, the list
\* its element, and every other item keeps its place and its generation.
LEMMA DroppedOK ==
    ASSUME NEW s, StoreOK(s), NEW n \in Nodes, NEW gen \in Nat,
           gen >= s.generation
    PROVE  StoreOK(Dropped(s, n, gen))
<1> DEFINE t == Dropped(s, n, gen)
           u == Unlinked(s.list, n)
<1>1. /\ s.list \in Seq(Nodes) /\ s.generation \in Nat
      /\ s.nodes \in [Nodes -> NodeInfoType \cup {NoItem}]
  BY DEF StoreOK, Store
<1>2. /\ t.nodes = [s.nodes EXCEPT ![n] = NoItem]
      /\ t.list = u /\ t.generation = gen
  BY DEF Dropped
<1>3. u \in Seq(Nodes)
  BY <1>1, UnlinkedType
<1>4. t \in Store
  BY <1>1, <1>3 DEF Dropped, Store
<1>5. PICK f \in [1..Len(u) -> 1..Len(s.list)] :
         /\ \A i \in 1..Len(u) : u[i] = s.list[f[i]]
         /\ \A i, j \in 1..Len(u) : i < j => f[i] < f[j]
         /\ \A k \in 1..Len(s.list) : s.list[k] # n => \E i \in 1..Len(u) : f[i] = k
  BY <1>1, UnlinkedOrder
<1>6. \A i \in 1..Len(u) : u[i] # n
  <2> SUFFICES ASSUME NEW i \in 1..Len(u), u[i] = n PROVE FALSE
    OBVIOUS
  <2>1. s.list[f[i]] = n
    BY <1>5
  <2>2. Linked(s.list, n)
    BY <2>1 DEF Linked
  <2> DEFINE k == CHOOSE k \in 1..Len(s.list) : s.list[k] = n
  <2>3. k \in 1..Len(s.list) /\ s.list[k] = n
    BY <2>2 DEF Linked
  <2>4. u = [l \in 1..(Len(s.list) - 1) |->
                IF l < k THEN s.list[l] ELSE s.list[l + 1]]
    BY <2>2 DEF Unlinked
  <2> HIDE DEF k
  <2>5. Len(s.list) \in Nat /\ Len(u) = Len(s.list) - 1
    BY <1>1, <1>3, <2>3, <2>4
  <2>6. CASE i < k
    <3>1. s.list[i] = n /\ i \in 1..Len(s.list)
      BY <2>3, <2>4, <2>5, <2>6
    <3>2. i = k
      BY <2>3, <3>1, PlacesDiffer
    <3> QED BY <2>3, <2>5, <2>6, <3>2
  <2>7. CASE i >= k
    <3>1. s.list[i + 1] = n /\ i + 1 \in 1..Len(s.list)
      BY <2>3, <2>4, <2>5, <2>7
    <3>2. i + 1 = k
      BY <2>3, <3>1, PlacesDiffer
    <3> QED BY <2>3, <2>7, <2>5, <3>2
  <2> QED BY <2>3, <2>5, <2>6, <2>7
<1>7. \A i \in 1..Len(u) : t.nodes[u[i]] = s.nodes[s.list[f[i]]]
  BY <1>1, <1>2, <1>3, <1>5, <1>6
<1>8. \A i \in 1..Len(t.list) : t.nodes[t.list[i]] # NoItem
  BY <1>2, <1>5, <1>7 DEF StoreOK
<1>9. \A m \in Nodes : t.nodes[m] # NoItem => Linked(t.list, m)
  <2> SUFFICES ASSUME NEW m \in Nodes, t.nodes[m] # NoItem
               PROVE  \E i \in 1..Len(u) : u[i] = m
    BY <1>2 DEF Linked
  <2>1. m # n /\ s.nodes[m] # NoItem
    BY <1>1, <1>2
  <2>2. PICK k \in 1..Len(s.list) : s.list[k] = m
    BY <2>1 DEF StoreOK, Linked
  <2>3. PICK i \in 1..Len(u) : f[i] = k
    BY <1>5, <2>1, <2>2
  <2> QED BY <1>5, <2>2, <2>3
<1>10. \A i, j \in 1..Len(t.list) :
          i < j => ItemGen(t, t.list[i]) > ItemGen(t, t.list[j])
  <2> SUFFICES ASSUME NEW i \in 1..Len(u), NEW j \in 1..Len(u), i < j
               PROVE  t.nodes[u[i]].gen > t.nodes[u[j]].gen
    BY <1>2 DEF ItemGen
  <2>1. f[i] \in 1..Len(s.list) /\ f[j] \in 1..Len(s.list) /\ f[i] < f[j]
    BY <1>5
  <2>2. s.nodes[s.list[f[i]]].gen > s.nodes[s.list[f[j]]].gen
    BY <2>1 DEF StoreOK, ItemGen
  <2> QED BY <1>7, <2>2
<1>11. \A m \in Nodes : t.nodes[m] # NoItem => ItemGen(t, m) <= t.generation
  <2> SUFFICES ASSUME NEW m \in Nodes, t.nodes[m] # NoItem
               PROVE  ItemGen(t, m) <= gen
    BY <1>2
  <2>1. m # n /\ t.nodes[m] = s.nodes[m] /\ s.nodes[m] \in NodeInfoType
    BY <1>1, <1>2
  <2>2. s.nodes[m].gen \in Nat /\ s.nodes[m].gen <= s.generation
    BY <2>1 DEF NodeInfoType, StoreOK, ItemGen
  <2> QED BY <1>1, <2>1, <2>2 DEF ItemGen
<1> QED BY <1>4, <1>8, <1>9, <1>10, <1>11 DEF StoreOK

\* An item that is changed, with a generation above all others, leaves the store
\* well formed: it moves to the head and the order behind it is kept.
LEMMA TouchedOK ==
    ASSUME NEW s, StoreOK(s), NEW n \in Nodes, NEW info \in NodeInfoType,
           info.gen > s.generation
    PROVE  StoreOK(Touched(s, n, info))
<1> DEFINE d == Dropped(s, n, s.generation)
           t == Touched(s, n, info)
<1>1. /\ s.list \in Seq(Nodes) /\ s.generation \in Nat
      /\ s.nodes \in [Nodes -> NodeInfoType \cup {NoItem}]
  BY DEF StoreOK, Store
<1>2. StoreOK(d)
  BY <1>1, DroppedOK
<1>3. /\ d.list \in Seq(Nodes) /\ d.generation = s.generation
      /\ d.nodes = [s.nodes EXCEPT ![n] = NoItem]
      /\ d.list = Unlinked(s.list, n)
  BY <1>1, UnlinkedType DEF Dropped
<1>4. /\ t.nodes = [d.nodes EXCEPT ![n] = info]
      /\ t.list = <<n>> \o d.list /\ t.generation = info.gen
  BY <1>1, <1>3 DEF Touched, MovedToHead
<1>5. info.gen \in Nat /\ info # NoItem
  BY NoItemAssumption DEF NodeInfoType
<1> HIDE DEF d, t
<1>6. /\ Len(t.list) = Len(d.list) + 1 /\ t.list[1] = n
      /\ Len(d.list) \in Nat
      /\ \A i \in 2..Len(t.list) : t.list[i] = d.list[i - 1]
      /\ t.list \in Seq(Nodes)
  BY <1>3, <1>4
<1>7. t.nodes \in [Nodes -> NodeInfoType \cup {NoItem}]
  BY <1>1, <1>3, <1>4
<1>8. t \in Store
  BY <1>4, <1>5, <1>6, <1>7 DEF Store, t, Touched
<1>9. \A i \in 1..Len(d.list) : /\ d.list[i] \in Nodes /\ d.list[i] # n
                                /\ t.nodes[d.list[i]] = d.nodes[d.list[i]]
  <2> SUFFICES ASSUME NEW i \in 1..Len(d.list)
               PROVE  /\ d.list[i] \in Nodes /\ d.list[i] # n
                      /\ t.nodes[d.list[i]] = d.nodes[d.list[i]]
    OBVIOUS
  <2>1. d.list[i] \in Nodes /\ d.nodes[d.list[i]] # NoItem
    BY <1>2, <1>3 DEF StoreOK
  <2>2. d.list[i] # n
    BY <1>1, <1>3, <2>1
  <2> QED BY <1>1, <1>3, <1>4, <2>1, <2>2
<1>10. \A i \in 1..Len(d.list) : /\ ItemGen(t, d.list[i]) = ItemGen(d, d.list[i])
                                 /\ ItemGen(d, d.list[i]) \in Nat
                                 /\ ItemGen(d, d.list[i]) <= s.generation
  <2> SUFFICES ASSUME NEW i \in 1..Len(d.list)
               PROVE  /\ ItemGen(t, d.list[i]) = ItemGen(d, d.list[i])
                      /\ ItemGen(d, d.list[i]) \in Nat
                      /\ ItemGen(d, d.list[i]) <= s.generation
    OBVIOUS
  <2>1. d.nodes[d.list[i]] \in NodeInfoType
    BY <1>1, <1>2, <1>3, <1>9 DEF StoreOK
  <2> QED BY <1>2, <1>3, <1>9, <2>1 DEF StoreOK, ItemGen, NodeInfoType
<1>11. ItemGen(t, n) = info.gen
  BY <1>1, <1>3, <1>4 DEF ItemGen
<1>12. \A i \in 1..Len(t.list) : t.nodes[t.list[i]] # NoItem
  <2> SUFFICES ASSUME NEW i \in 1..Len(t.list) PROVE t.nodes[t.list[i]] # NoItem
    OBVIOUS
  <2>1. CASE i = 1
    BY <1>1, <1>3, <1>4, <1>5, <1>6, <2>1
  <2>2. CASE i # 1
    <3>1. i - 1 \in 1..Len(d.list) /\ t.list[i] = d.list[i - 1]
      BY <1>6, <2>2
    <3> QED BY <1>2, <1>9, <3>1 DEF StoreOK
  <2> QED BY <2>1, <2>2
<1>13. \A m \in Nodes : t.nodes[m] # NoItem => Linked(t.list, m)
  <2> SUFFICES ASSUME NEW m \in Nodes, t.nodes[m] # NoItem
               PROVE  \E i \in 1..Len(t.list) : t.list[i] = m
    BY DEF Linked
  <2>1. CASE m = n
    <3>1. 1 \in 1..Len(t.list)
      BY <1>6
    <3> QED BY <1>6, <2>1, <3>1
  <2>2. CASE m # n
    <3>1. d.nodes[m] # NoItem
      BY <1>1, <1>3, <1>4, <2>2
    <3>2. PICK i \in 1..Len(d.list) : d.list[i] = m
      BY <1>2, <3>1 DEF StoreOK, Linked
    <3>3. i + 1 \in 1..Len(t.list) /\ t.list[i + 1] = m
      BY <1>6, <3>2
    <3> QED BY <3>3
  <2> QED BY <2>1, <2>2
<1>14. ASSUME NEW i \in 1..Len(t.list), NEW j \in 1..Len(t.list), i < j
       PROVE  ItemGen(t, t.list[i]) > ItemGen(t, t.list[j])
  <2>1. j - 1 \in 1..Len(d.list) /\ t.list[j] = d.list[j - 1]
    BY <1>6, <1>14
  <2>2. CASE i = 1
    <3>1. ItemGen(t, t.list[j]) \in Nat /\ ItemGen(t, t.list[j]) <= s.generation
      BY <1>10, <2>1
    <3>2. ItemGen(t, t.list[i]) = info.gen
      BY <1>6, <1>11, <2>2
    <3> QED BY <1>1, <1>5, <3>1, <3>2
  <2>3. CASE i # 1
    <3>1. i - 1 \in 1..Len(d.list) /\ t.list[i] = d.list[i - 1] /\ i - 1 < j - 1
      BY <1>6, <1>14, <2>3
    <3>2. ItemGen(d, d.list[i - 1]) > ItemGen(d, d.list[j - 1])
      BY <1>2, <2>1, <3>1 DEF StoreOK
    <3> QED BY <1>10, <2>1, <3>1, <3>2
  <2> QED BY <2>2, <2>3
<1>15. \A m \in Nodes : t.nodes[m] # NoItem => ItemGen(t, m) <= t.generation
  <2> SUFFICES ASSUME NEW m \in Nodes, t.nodes[m] # NoItem
               PROVE  ItemGen(t, m) <= info.gen
    BY <1>4
  <2>1. CASE m = n
    BY <1>5, <1>11, <2>1
  <2>2. CASE m # n
    <3>1. t.nodes[m] = s.nodes[m] /\ s.nodes[m] \in NodeInfoType
      BY <1>1, <1>3, <1>4, <1>7, <2>2
    <3>2. s.nodes[m].gen \in Nat /\ s.nodes[m].gen <= s.generation
      BY <3>1, NoItemAssumption DEF NodeInfoType, StoreOK, ItemGen
    <3> QED BY <1>1, <1>5, <3>1, <3>2 DEF ItemGen
  <2> QED BY <2>1, <2>2
<1> QED BY <1>8, <1>12, <1>13, <1>14, <1>15 DEF StoreOK, t

-----------------------------------------------------------------------------
(* What the operations on the store do.                                    *)

\* AddPod of a NodeInfo keeps its type and its node object.
LEMMA InfoAddPodType ==
    ASSUME NEW info \in NodeInfoType, NEW p \in Pods, NEW gen \in Nat
    PROVE  LET new == InfoAddPod(info, p, gen) IN
           /\ new \in NodeInfoType /\ new.node = info.node /\ new.gen = gen
           /\ \A q \in Pods :
                 new.pods[q] = IF q = p THEN info.pods[q] + 1 ELSE info.pods[q]
<1>1. info.pods \in [Pods -> Nat] /\ info.node \in {NoNode} \cup NodeObject
  BY DEF NodeInfoType
<1> QED BY <1>1 DEF NodeInfoType, InfoAddPod

\* RemovePod of a NodeInfo that holds the pod keeps its type.
LEMMA InfoRemovePodType ==
    ASSUME NEW info \in NodeInfoType, NEW p \in Pods, NEW gen \in Nat,
           info.pods[p] > 0
    PROVE  LET new == InfoRemovePod(info, p, gen) IN
           /\ new \in NodeInfoType /\ new.node = info.node /\ new.gen = gen
           /\ \A q \in Pods :
                 new.pods[q] = IF q = p THEN info.pods[q] - 1 ELSE info.pods[q]
<1>1. info.pods \in [Pods -> Nat] /\ info.node \in {NoNode} \cup NodeObject
  BY DEF NodeInfoType
<1> QED BY <1>1 DEF NodeInfoType, InfoRemovePod

\* No item is kept for a node that is neither known nor holds a pod.
NoLeak(s) ==
    \A n \in Nodes : s.nodes[n] # NoItem =>
        s.nodes[n].node # NoNode \/ ~ NoPods(s.nodes[n])

\* From s to t no generation is used twice: what changed is newer than all of s.
Newer(s, t) ==
    /\ t.generation >= s.generation
    /\ \A m \in Nodes : \/ t.nodes[m] = s.nodes[m]
                        \/ t.nodes[m] = NoItem
                        \/ t.nodes[m].gen > s.generation

\* The parts of a well formed store have their types.
LEMMA StoreTypes ==
    ASSUME NEW s, StoreOK(s)
    PROVE  /\ s.list \in Seq(Nodes) /\ s.generation \in Nat
           /\ s.nodes \in [Nodes -> NodeInfoType \cup {NoItem}]
           /\ \A m \in Nodes : s.nodes[m] # NoItem =>
                 /\ s.nodes[m] \in NodeInfoType
                 /\ s.nodes[m].node \in {NoNode} \cup NodeObject
                 /\ s.nodes[m].pods \in [Pods -> Nat]
                 /\ s.nodes[m].gen \in Nat
                 /\ s.nodes[m].gen <= s.generation
BY DEF StoreOK, Store, NodeInfoType, ItemGen

\* The item addPod starts from, found or new, is a NodeInfo.
LEMMA ItemOrNewType ==
    ASSUME NEW s, StoreOK(s), NEW n \in Nodes
    PROVE  /\ ItemOrNew(s, n) \in NodeInfoType
           /\ ItemOrNew(s, n).node = NodeOf(s, n)
           /\ \A q \in Pods : ItemOrNew(s, n).pods[q] = CountIn(s, q, n)
           /\ NextGen(s, n) \in Nat
           /\ NextGen(s, n) > s.generation
BY StoreTypes DEF ItemOrNew, NewNodeInfo, NodeInfoType, NodeOf, CountIn, NextGen

\* addPod counts the pod once more on its node, and nothing else.
LEMMA AddPodEffect ==
    ASSUME NEW s, StoreOK(s), NEW p \in Pods, NEW n \in Nodes
    PROVE  LET t == addPod(s, p, n) IN
           /\ StoreOK(t)
           /\ Newer(s, t)
           /\ \A q \in Pods, m \in Nodes :
                 CountIn(t, q, m) =
                     IF q = p /\ m = n THEN CountIn(s, q, m) + 1 ELSE CountIn(s, q, m)
           /\ \A m \in Nodes : NodeOf(t, m) = NodeOf(s, m)
           /\ NoLeak(s) => NoLeak(t)
<1> DEFINE old == ItemOrNew(s, n)
           g == NextGen(s, n)
           info == InfoAddPod(old, p, g)
           t == addPod(s, p, n)
<1>1. /\ old \in NodeInfoType /\ old.node = NodeOf(s, n)
      /\ \A q \in Pods : old.pods[q] = CountIn(s, q, n)
      /\ g \in Nat /\ g > s.generation
  BY ItemOrNewType
<1> HIDE DEF old, g
<1>2. /\ info \in NodeInfoType
      /\ info.node = old.node /\ info.gen = g
      /\ \A q \in Pods : info.pods[q] = IF q = p THEN old.pods[q] + 1 ELSE old.pods[q]
  BY <1>1, InfoAddPodType
<1> HIDE DEF info
<1>3. t = Touched(s, n, info)
  BY DEF addPod, info, old, g
<1>4. t.nodes = [s.nodes EXCEPT ![n] = info] /\ t.generation = g
  BY <1>2, <1>3 DEF Touched
<1>5. info # NoItem
  BY <1>2, NoItemAssumption
<1>6. StoreOK(t)
  BY <1>1, <1>2, <1>3, TouchedOK
<1> HIDE DEF t
<1>7. Newer(s, t)
  BY <1>1, <1>2, <1>4, StoreTypes DEF Newer
<1>8. \A q \in Pods, m \in Nodes :
         CountIn(t, q, m) =
             IF q = p /\ m = n THEN CountIn(s, q, m) + 1 ELSE CountIn(s, q, m)
  <2> TAKE q \in Pods, m \in Nodes
  <2>1. CASE m = n
    <3>1. t.nodes[m] = info
      BY <1>4, <2>1, StoreTypes
    <3>2. CountIn(t, q, m) = info.pods[q]
      BY <1>5, <3>1 DEF CountIn
    <3> QED BY <1>1, <1>2, <2>1, <3>2
  <2>2. CASE m # n
    <3>1. t.nodes[m] = s.nodes[m]
      BY <1>4, <2>2, StoreTypes
    <3> QED BY <2>2, <3>1 DEF CountIn
  <2> QED BY <2>1, <2>2
<1>9. \A m \in Nodes : NodeOf(t, m) = NodeOf(s, m)
  BY <1>1, <1>2, <1>4, <1>5, StoreTypes DEF NodeOf
<1>10. ~ NoPods(info)
  <2>1. old.pods[p] \in Nat
    BY <1>1 DEF NodeInfoType
  <2> QED BY <1>2, <2>1 DEF NoPods
<1>11. NoLeak(s) => NoLeak(t)
  BY <1>4, <1>10, StoreTypes DEF NoLeak
<1> QED BY <1>6, <1>7, <1>8, <1>9, <1>11 DEF t

\* removePod counts a pod its node holds once less, nothing else, and leaves no
\* ghost without pods.
LEMMA RemovePodEffect ==
    ASSUME NEW s, StoreOK(s), NEW p \in Pods, NEW n \in Nodes, CountIn(s, p, n) > 0
    PROVE  LET t == removePod(s, p, n) IN
           /\ ~ removePodFails(s, p, n)
           /\ StoreOK(t)
           /\ Newer(s, t)
           /\ \A q \in Pods, m \in Nodes :
                 CountIn(t, q, m) =
                     IF q = p /\ m = n THEN CountIn(s, q, m) - 1 ELSE CountIn(s, q, m)
           /\ \A m \in Nodes : NodeOf(t, m) = NodeOf(s, m)
           /\ NoLeak(s) => NoLeak(t)
<1> DEFINE old == s.nodes[n]
           info == InfoRemovePod(old, p, s.generation + 1)
           drop == NoPods(info) /\ info.node = NoNode
           t == removePod(s, p, n)
<1>1. old # NoItem /\ old.pods[p] > 0
  BY DEF CountIn
<1>2. /\ old \in NodeInfoType /\ old.pods \in [Pods -> Nat] /\ s.generation \in Nat
      /\ s.nodes \in [Nodes -> NodeInfoType \cup {NoItem}]
  BY <1>1, StoreTypes
<1>3. ~ removePodFails(s, p, n)
  BY <1>1 DEF removePodFails, InfoHasPod
<1> HIDE DEF old
<1>4. /\ info \in NodeInfoType
      /\ info.node = old.node /\ info.gen = s.generation + 1
      /\ \A q \in Pods : info.pods[q] = IF q = p THEN old.pods[q] - 1 ELSE old.pods[q]
  <2>1. s.generation + 1 \in Nat
    BY <1>2
  <2> QED BY <1>1, <1>2, <2>1, InfoRemovePodType
<1>5. t = IF drop THEN Dropped(s, n, info.gen) ELSE Touched(s, n, info)
  BY <1>1, <1>3 DEF removePod, old
<1> HIDE DEF info, t
<1>6. info # NoItem
  BY <1>4, NoItemAssumption
<1>7. StoreOK(t)
  <2>1. info.gen \in Nat /\ info.gen > s.generation /\ info.gen >= s.generation
    BY <1>2, <1>4
  <2> QED BY <1>4, <1>5, <2>1, TouchedOK, DroppedOK
<1>8. /\ t.generation = s.generation + 1
      /\ t.nodes = [s.nodes EXCEPT ![n] = IF drop THEN NoItem ELSE info]
  BY <1>4, <1>5 DEF Touched, Dropped
<1>9. Newer(s, t)
  BY <1>2, <1>4, <1>8 DEF Newer
<1>10. \A q \in Pods, m \in Nodes :
         CountIn(t, q, m) =
             IF q = p /\ m = n THEN CountIn(s, q, m) - 1 ELSE CountIn(s, q, m)
  <2> SUFFICES ASSUME NEW q \in Pods, NEW m \in Nodes
               PROVE  CountIn(t, q, m) = IF q = p /\ m = n
                         THEN CountIn(s, q, m) - 1 ELSE CountIn(s, q, m)
    OBVIOUS
  <2>1. CASE m # n
    BY <1>2, <1>8, <2>1 DEF CountIn
  <2>2. CASE m = n
    <3>1. CountIn(s, q, m) = old.pods[q]
      BY <1>1, <2>2 DEF CountIn, old
    <3>2. CountIn(t, q, m) = info.pods[q]
      BY <1>2, <1>6, <1>8, <2>2 DEF CountIn, NoPods
    <3> QED BY <1>4, <2>2, <3>1, <3>2
  <2> QED BY <2>1, <2>2
<1>11. \A m \in Nodes : NodeOf(t, m) = NodeOf(s, m)
  BY <1>1, <1>2, <1>4, <1>6, <1>8 DEF NodeOf, old
<1>12. NoLeak(s) => NoLeak(t)
  BY <1>2, <1>8 DEF NoLeak
<1> QED BY <1>3, <1>7, <1>9, <1>10, <1>11, <1>12 DEF t

\* setNode gives the item its node object and keeps every count.
LEMMA SetNodeEffect ==
    ASSUME NEW s, StoreOK(s), NEW n \in Nodes, NEW obj \in NodeObject
    PROVE  LET t == setNode(s, n, obj) IN
           /\ StoreOK(t)
           /\ Newer(s, t)
           /\ \A q \in Pods, m \in Nodes : CountIn(t, q, m) = CountIn(s, q, m)
           /\ \A m \in Nodes : NodeOf(t, m) = IF m = n THEN obj ELSE NodeOf(s, m)
           /\ NoLeak(s) => NoLeak(t)
<1> DEFINE old == ItemOrNew(s, n)
           g == NextGen(s, n)
           info == SetNode(old, obj, g)
           t == setNode(s, n, obj)
<1>1. /\ old \in NodeInfoType
      /\ \A q \in Pods : old.pods[q] = CountIn(s, q, n)
      /\ g \in Nat /\ g > s.generation
  BY ItemOrNewType
<1> HIDE DEF old, g
<1>2. /\ info \in NodeInfoType
      /\ info.node = obj /\ info.gen = g /\ info.pods = old.pods
  BY <1>1 DEF SetNode, NodeInfoType
<1> HIDE DEF info
<1>3. t = Touched(s, n, info)
  BY DEF setNode, info, old, g
<1>4. t.nodes = [s.nodes EXCEPT ![n] = info] /\ t.generation = g
  BY <1>2, <1>3 DEF Touched
<1>5. info # NoItem /\ obj # NoNode
  BY <1>2, NoItemAssumption, NoNodeAssumption DEF NodeObject
<1>6. StoreOK(t)
  BY <1>1, <1>2, <1>3, TouchedOK
<1> HIDE DEF t
<1>7. Newer(s, t)
  BY <1>1, <1>2, <1>4, StoreTypes DEF Newer
<1>8. \A q \in Pods, m \in Nodes : CountIn(t, q, m) = CountIn(s, q, m)
  BY <1>1, <1>2, <1>4, <1>5, StoreTypes DEF CountIn
<1>9. \A m \in Nodes : NodeOf(t, m) = IF m = n THEN obj ELSE NodeOf(s, m)
  BY <1>1, <1>2, <1>4, <1>5, StoreTypes DEF NodeOf
<1>10. NoLeak(s) => NoLeak(t)
  BY <1>2, <1>4, <1>5, StoreTypes DEF NoLeak
<1> QED BY <1>6, <1>7, <1>8, <1>9, <1>10 DEF t

\* removeNode takes the node object away and keeps every count, as an item or,
\* when there are no pods, as no item.
LEMMA RemoveNodeEffect ==
    ASSUME NEW s, StoreOK(s), NEW n \in Nodes, s.nodes[n] # NoItem
    PROVE  LET t == removeNode(s, n) IN
           /\ StoreOK(t)
           /\ Newer(s, t)
           /\ \A q \in Pods, m \in Nodes : CountIn(t, q, m) = CountIn(s, q, m)
           /\ \A m \in Nodes : NodeOf(t, m) = IF m = n THEN NoNode ELSE NodeOf(s, m)
           /\ NoLeak(s) => NoLeak(t)
<1> DEFINE old == s.nodes[n]
           info == RemoveNodeObject(old, s.generation + 1)
           t == removeNode(s, n)
<1>1. /\ old \in NodeInfoType /\ old # NoItem
      /\ old.pods \in [Pods -> Nat] /\ s.generation \in Nat
      /\ s.nodes \in [Nodes -> NodeInfoType \cup {NoItem}]
  BY StoreTypes
<1> HIDE DEF old
<1>2. /\ info \in NodeInfoType
      /\ info.node = NoNode /\ info.gen = s.generation + 1 /\ info.pods = old.pods
  <2>1. s.generation + 1 \in Nat
    BY <1>1
  <2> QED BY <1>1, <2>1 DEF RemoveNodeObject, NodeInfoType
<1>3. t = IF NoPods(info) THEN Dropped(s, n, info.gen) ELSE Touched(s, n, info)
  BY DEF removeNode, old
<1> HIDE DEF info, t
<1>4. info # NoItem
  BY <1>2, NoItemAssumption
<1>5. StoreOK(t)
  <2>1. info.gen \in Nat /\ info.gen > s.generation /\ info.gen >= s.generation
    BY <1>1, <1>2
  <2> QED BY <1>2, <1>3, <2>1, TouchedOK, DroppedOK
<1>6. /\ t.generation = s.generation + 1
      /\ t.nodes = [s.nodes EXCEPT ![n] = IF NoPods(info) THEN NoItem ELSE info]
  BY <1>2, <1>3 DEF Touched, Dropped
<1>7. Newer(s, t)
  BY <1>1, <1>2, <1>6 DEF Newer
<1>8. \A q \in Pods, m \in Nodes : CountIn(t, q, m) = CountIn(s, q, m)
  BY <1>1, <1>2, <1>4, <1>6 DEF CountIn, NoPods, old
<1>9. \A m \in Nodes : NodeOf(t, m) = IF m = n THEN NoNode ELSE NodeOf(s, m)
  BY <1>1, <1>2, <1>4, <1>6 DEF NodeOf
<1>10. NoLeak(s) => NoLeak(t)
  BY <1>1, <1>6 DEF NoLeak
<1> QED BY <1>5, <1>7, <1>8, <1>9, <1>10 DEF t

-----------------------------------------------------------------------------
(* The inductive invariant.                                                *)

PodInv ==
    /\ AssumedAreKnown
    /\ Placement
    /\ WatchMirrored
    /\ FinishedHasDeadline
    /\ sweep \subseteq assumedPods

NodeInv ==
    /\ NoLeakedItem
    /\ \A n \in Nodes : NodeOf(store, n) = nodeWatch[n]
    /\ ImageStatesExact

SnapInv ==
    /\ SnapshotExact
    /\ snapshot.generation <= store.generation
    /\ snapshot.nodeInfoList \subseteq Keys(snapshot.nodeInfoMap)
    /\ SnapshotAffinityExact

CacheInv == TypeOK /\ StoreOK(store) /\ PodInv /\ NodeInv /\ SnapInv

\* A step that changes items only under new generations leaves the snapshot
\* exact.
LEMMA SnapKept ==
    ASSUME TypeOK, StoreOK(store), SnapInv, StoreOK(store'), Newer(store, store'),
           snapshot' = snapshot
    PROVE  SnapInv'
<1>1. snapshot.generation \in Nat
  BY DEF TypeOK, Snapshot
<1>2. /\ store.generation \in Nat /\ store'.generation \in Nat
      /\ store'.generation >= store.generation
  BY StoreTypes DEF Newer
<1>3. ASSUME NEW n \in Nodes, NodeOf(store', n) # NoNode,
             store'.nodes[n].gen <= snapshot.generation
      PROVE  snapshot.nodeInfoMap[n] = store'.nodes[n]
  <2>1. store'.nodes[n] # NoItem
    BY <1>3 DEF NodeOf
  <2>2. store'.nodes[n].gen \in Nat
    BY <2>1, StoreTypes
  <2>3. ~ (store'.nodes[n].gen > store.generation)
    BY <1>1, <1>2, <1>3, <2>2 DEF SnapInv
  <2>4. store'.nodes[n] = store.nodes[n]
    BY <2>1, <2>3 DEF Newer
  <2> QED BY <1>3, <2>4 DEF SnapInv, SnapshotExact, NodeOf
<1>4. SnapshotExact'
  BY <1>3 DEF SnapshotExact
<1>5. (snapshot.generation <= store.generation)'
  BY <1>1, <1>2 DEF SnapInv
<1>6. SnapshotAffinityExact' /\ (snapshot.nodeInfoList \subseteq Keys(snapshot.nodeInfoMap))'
  BY DEF SnapInv, SnapshotAffinityExact, AffinityIn, Keys
<1> QED BY <1>4, <1>5, <1>6 DEF SnapInv

\* A step that leaves the node objects alone keeps the node side.
LEMMA NodesKept ==
    ASSUME NodeInv, \A m \in Nodes : NodeOf(store', m) = NodeOf(store, m),
           NoLeak(store) => NoLeak(store'),
           tree' = tree, imageStates' = imageStates, nodeWatch' = nodeWatch
    PROVE  NodeInv'
BY DEF NodeInv, NoLeakedItem, NoLeak, ImageStatesExact

\* Two changes in a row leave a store newer than the one before them.
LEMMA NewerTransitive ==
    ASSUME NEW s, NEW t, NEW u, StoreOK(s), StoreOK(t), StoreOK(u),
           Newer(s, t), Newer(t, u)
    PROVE  Newer(s, u)
<1>1. /\ s.generation \in Nat /\ t.generation \in Nat /\ u.generation \in Nat
      /\ \A m \in Nodes : u.nodes[m] # NoItem => u.nodes[m].gen \in Nat
  BY StoreTypes
<1> QED BY <1>1 DEF Newer

\* removePod followed by addPod of the same pod: what UpdatePod does, and AddPod
\* for a pod that was assumed on another node.
LEMMA MovePodEffect ==
    ASSUME NEW s, StoreOK(s), NEW p \in Pods, NEW m \in Nodes, NEW n \in Nodes,
           CountIn(s, p, m) = 1, m # n => CountIn(s, p, n) = 0
    PROVE  LET t == addPod(removePod(s, p, m), p, n) IN
           /\ StoreOK(t)
           /\ Newer(s, t)
           /\ \A q \in Pods, k \in Nodes :
                 CountIn(t, q, k) =
                     IF q = p THEN (IF k = n THEN 1
                                    ELSE IF k = m THEN 0 ELSE CountIn(s, q, k))
                     ELSE CountIn(s, q, k)
           /\ \A k \in Nodes : NodeOf(t, k) = NodeOf(s, k)
           /\ NoLeak(s) => NoLeak(t)
<1> DEFINE r == removePod(s, p, m)
           t == addPod(r, p, n)
<1>1. /\ StoreOK(r) /\ Newer(s, r)
      /\ \A q \in Pods, k \in Nodes :
            CountIn(r, q, k) =
                IF q = p /\ k = m THEN CountIn(s, q, k) - 1 ELSE CountIn(s, q, k)
      /\ \A k \in Nodes : NodeOf(r, k) = NodeOf(s, k)
      /\ NoLeak(s) => NoLeak(r)
  BY RemovePodEffect
<1> HIDE DEF r
<1>2. /\ StoreOK(t) /\ Newer(r, t)
      /\ \A q \in Pods, k \in Nodes :
            CountIn(t, q, k) =
                IF q = p /\ k = n THEN CountIn(r, q, k) + 1 ELSE CountIn(r, q, k)
      /\ \A k \in Nodes : NodeOf(t, k) = NodeOf(r, k)
      /\ NoLeak(r) => NoLeak(t)
  BY <1>1, AddPodEffect
<1> HIDE DEF t
<1>3. Newer(s, t)
  BY <1>1, <1>2, NewerTransitive
<1>4. \A q \in Pods, k \in Nodes :
         CountIn(t, q, k) =
             IF q = p THEN (IF k = n THEN 1
                            ELSE IF k = m THEN 0 ELSE CountIn(s, q, k))
             ELSE CountIn(s, q, k)
  BY <1>1, <1>2
<1> QED BY <1>1, <1>2, <1>3, <1>4 DEF r, t

-----------------------------------------------------------------------------
(* Every action preserves the invariant.                                   *)

\* newSchedulerCache establishes the invariant.
LEMMA InitInv == Init => CacheInv
<1> SUFFICES ASSUME Init PROVE CacheInv
  OBVIOUS
<1> USE DEF Init
<1>1. TypeOK
  BY DEF TypeOK, Store, Snapshot, PodState
<1>2. StoreOK(store)
  BY <1>1 DEF TypeOK, StoreOK, Linked
<1>3. PodInv
  BY WatchAssumption DEF PodInv, AssumedAreKnown, Placement, Count, CountIn, Known,
     WatchMirrored, FinishedHasDeadline
<1>4. NodeInv
  BY DEF NodeInv, NoLeakedItem, NodeOf, ImageStatesExact
<1>5. SnapInv
  BY DEF SnapInv, SnapshotExact, NodeOf, SnapshotAffinityExact
<1> QED BY <1>1, <1>2, <1>3, <1>4, <1>5 DEF CacheInv

\* A binding cycle that leaves a stage it is in keeps the counts natural.
LEMMA MovedType ==
    ASSUME attempt \in [Pods -> [Nodes -> [Stage -> Nat]]],
           NEW p \in Pods, NEW n \in Nodes, NEW from, NEW to,
           from \in Stage => attempt[p][n][from] > 0
    PROVE  Moved(p, n, from, to) \in [Pods -> [Nodes -> [Stage -> Nat]]]
<1> DEFINE new == [s \in Stage |-> IF s = to THEN attempt[p][n][s] + 1
                                   ELSE IF s = from THEN attempt[p][n][s] - 1
                                   ELSE attempt[p][n][s]]
<1>1. attempt[p][n] \in [Stage -> Nat]
  OBVIOUS
<1>2. ASSUME NEW s \in Stage PROVE new[s] \in Nat
  BY <1>1
<1>3. new \in [Stage -> Nat]
  BY <1>2
<1>4. Moved(p, n, from, to) = [attempt EXCEPT ![p][n] = new]
  BY DEF Moved
<1> HIDE DEF new
<1> QED BY <1>3, <1>4

\* The podState AssumePod and AddPod create.
LEMMA NewPodStateFacts ==
    ASSUME NEW n \in Nodes
    PROVE  /\ newPodState(n) \in PodState /\ newPodState(n) # NoState
           /\ newPodState(n).node = n /\ ~ newPodState(n).bindingFinished
<1>1. newPodState(n) \in PodState
  BY DEF newPodState, PodState, Deadline
<1>2. newPodState(n) # NoState
  BY <1>1, NoStateAssumption
<1>3. newPodState(n).node = n /\ ~ newPodState(n).bindingFinished
  BY DEF newPodState
<1> QED BY <1>1, <1>2, <1>3

\* AssumePod keeps the invariant.
LEMMA AssumePodInv ==
    ASSUME CacheInv, NEW p \in Pods, NEW n \in Nodes, AssumePod(p, n)
    PROVE  CacheInv'
<1> USE DEF CacheInv
<1>1. /\ store' = addPod(store, p, n)
      /\ podStates[p] = NoState
      /\ podStates' = [podStates EXCEPT ![p] = newPodState(n)]
      /\ assumedPods' = assumedPods \cup {p}
      /\ attempt' = Moved(p, n, "none", "inFlight")
      /\ UNCHANGED <<tree, imageStates, sweep, snapshot, podWatch, nodeWatch>>
  BY DEF AssumePod, watchVars
<1>2. /\ StoreOK(store')
      /\ Newer(store, store')
      /\ \A q \in Pods, m \in Nodes :
            CountIn(store', q, m) =
                IF q = p /\ m = n THEN CountIn(store, q, m) + 1 ELSE CountIn(store, q, m)
      /\ \A m \in Nodes : NodeOf(store', m) = NodeOf(store, m)
      /\ NoLeak(store) => NoLeak(store')
  BY <1>1, AddPodEffect
<1>a. attempt' \in [Pods -> [Nodes -> [Stage -> Nat]]]
  BY <1>1, MovedType DEF TypeOK, Stage
<1>3. TypeOK'
  BY <1>1, <1>2, <1>a, NewPodStateFacts DEF TypeOK, StoreOK
<1>4. newPodState(n) # NoState /\ newPodState(n).node = n
      /\ ~ newPodState(n).bindingFinished
  BY NewPodStateFacts
<1>5. PodInv'
  <2>1. AssumedAreKnown'
    BY <1>1, <1>4 DEF PodInv, AssumedAreKnown, Known, TypeOK
  <2>2. Placement'
    BY <1>1, <1>2, <1>4 DEF PodInv, Placement, Count, Known, TypeOK
  <2>3. WatchMirrored'
    BY <1>1, <1>4 DEF PodInv, WatchMirrored, Known, TypeOK
  <2>4. FinishedHasDeadline'
    BY <1>1, <1>4 DEF PodInv, FinishedHasDeadline, TypeOK
  <2> QED BY <1>1, <2>1, <2>2, <2>3, <2>4 DEF PodInv
<1>6. NodeInv'
  BY <1>1, <1>2, NodesKept
<1>7. SnapInv'
  BY <1>1, <1>2, SnapKept
<1> QED BY <1>2, <1>3, <1>5, <1>6, <1>7

\* FinishBinding changes a podState in place; the store does not move.
LEMMA FinishBindingInv ==
    ASSUME CacheInv, NEW p \in Pods, NEW n \in Nodes, FinishBinding(p, n)
    PROVE  CacheInv'
<1> USE DEF CacheInv
<1>1. /\ attempt[p][n]["inFlight"] > 0
      /\ attempt' = Moved(p, n, "inFlight", "finished")
      /\ UNCHANGED <<store, assumedPods, tree, imageStates, sweep, snapshot,
                     podWatch, nodeWatch>>
  BY DEF FinishBinding, watchVars
<1>2. /\ podStates' \in [Pods -> PodState \cup {NoState}]
      /\ \A q \in Pods :
            /\ podStates'[q] = NoState <=> podStates[q] = NoState
            /\ podStates'[q] # NoState => podStates'[q].node = podStates[q].node
            /\ podStates'[q].bindingFinished /\ podStates[q] # NoState =>
                  \/ podStates'[q].deadline # "nil"
                  \/ podStates'[q] = podStates[q]
  <2>1. CASE podStates[p] # NoState /\ p \in assumedPods
    <3> DEFINE new == [podStates[p] EXCEPT !.bindingFinished = TRUE,
                                           !.deadline = "ahead"]
    <3>1. podStates' = [podStates EXCEPT ![p] = new]
      BY <2>1 DEF FinishBinding
    <3>2. podStates[p] \in PodState
      BY <2>1 DEF TypeOK
    <3>3. new \in PodState /\ new.node = podStates[p].node /\ new.deadline = "ahead"
      BY <3>2 DEF PodState, Deadline
    <3>4. new # NoState
      BY <3>3, NoStateAssumption
    <3> HIDE DEF new
    <3> QED BY <2>1, <3>1, <3>3, <3>4 DEF TypeOK
  <2>2. CASE ~ (podStates[p] # NoState /\ p \in assumedPods)
    BY <2>2 DEF FinishBinding, TypeOK
  <2> QED BY <2>1, <2>2
<1>a. attempt' \in [Pods -> [Nodes -> [Stage -> Nat]]]
  BY <1>1, MovedType DEF TypeOK, Stage
<1>3. TypeOK'
  BY <1>1, <1>2, <1>a DEF TypeOK
<1>4. PodInv'
  <2>1. AssumedAreKnown' /\ WatchMirrored'
    BY <1>1, <1>2 DEF PodInv, AssumedAreKnown, Known, WatchMirrored, TypeOK
  <2>2. Placement'
    BY <1>1, <1>2 DEF PodInv, Placement, Count, CountIn, Known
  <2>3. FinishedHasDeadline'
    BY <1>1, <1>2 DEF PodInv, AssumedAreKnown, Known, FinishedHasDeadline, TypeOK
  <2> QED BY <1>1, <2>1, <2>2, <2>3 DEF PodInv
<1>5. NodeInv'
  BY <1>1 DEF NodeInv, NoLeakedItem, NodeOf, ImageStatesExact
<1>6. SnapInv'
  BY <1>1 DEF SnapInv, SnapshotExact, NodeOf, SnapshotAffinityExact, AffinityIn, Keys
<1> QED BY <1>1, <1>3, <1>4, <1>5, <1>6

\* Taking an assumed pod out of the cache: what ForgetPod and expiry have in
\* common.
LEMMA RemoveAssumed ==
    ASSUME CacheInv, NEW p \in assumedPods,
           store' = removePod(store, p, podStates[p].node),
           podStates' = [podStates EXCEPT ![p] = NoState],
           assumedPods' = assumedPods \ {p}, sweep' \subseteq sweep \ {p},
           attempt' \in [Pods -> [Nodes -> [Stage -> Nat]]],
           UNCHANGED <<tree, imageStates, snapshot, podWatch, nodeWatch>>
    PROVE  CacheInv'
<1> USE DEF CacheInv
<1> DEFINE n == podStates[p].node
<1>1. p \in Pods /\ Known(p) /\ podStates[p] \in PodState /\ n \in Nodes
  BY DEF PodInv, AssumedAreKnown, Known, TypeOK, PodState
<1>2. CountIn(store, p, n) = 1
  BY <1>1 DEF PodInv, Placement, Count
<1> HIDE DEF n
<1>3. /\ StoreOK(store') /\ Newer(store, store')
      /\ \A q \in Pods, m \in Nodes :
            CountIn(store', q, m) =
                IF q = p /\ m = n THEN CountIn(store, q, m) - 1 ELSE CountIn(store, q, m)
      /\ \A m \in Nodes : NodeOf(store', m) = NodeOf(store, m)
      /\ NoLeak(store) => NoLeak(store')
  BY <1>1, <1>2, RemovePodEffect DEF n
<1>4. TypeOK'
  BY <1>1, <1>3 DEF TypeOK, StoreOK
<1>5. Placement'
  BY <1>1, <1>2, <1>3 DEF PodInv, Placement, Count, Known, TypeOK, n
<1>6. PodInv'
  BY <1>1, <1>5 DEF PodInv, AssumedAreKnown, Known, WatchMirrored,
     FinishedHasDeadline, TypeOK
<1>7. NodeInv'
  BY <1>3, NodesKept
<1>8. SnapInv'
  BY <1>3, SnapKept
<1> QED BY <1>3, <1>4, <1>6, <1>7, <1>8

\* ForgetPod keeps the invariant, whichever binding cycle calls it and however late.
LEMMA ForgetPodInv ==
    ASSUME CacheInv, sweep = {}, NEW p \in Pods, NEW n \in Nodes, ForgetPod(p, n)
    PROVE  CacheInv'
<1>1. /\ \E s \in Stage : attempt[p][n][s] > 0 /\ attempt' = Moved(p, n, s, "none")
      /\ UNCHANGED <<tree, imageStates, sweep, snapshot, podWatch, nodeWatch>>
  BY DEF ForgetPod, watchVars
<1>2. attempt' \in [Pods -> [Nodes -> [Stage -> Nat]]]
  BY <1>1, MovedType DEF CacheInv, TypeOK
<1>3. CASE /\ podStates[p] # NoState /\ podStates[p].node = n
           /\ p \in assumedPods /\ ~ removePodFails(store, p, n)
  <2>1. /\ store' = removePod(store, p, podStates[p].node)
        /\ podStates' = [podStates EXCEPT ![p] = NoState]
        /\ assumedPods' = assumedPods \ {p}
    BY <1>3 DEF ForgetPod
  <2> QED BY <1>1, <1>2, <1>3, <2>1, RemoveAssumed
<1>4. CASE ~ (/\ podStates[p] # NoState /\ podStates[p].node = n
              /\ p \in assumedPods /\ ~ removePodFails(store, p, n))
  <2>1. UNCHANGED <<store, podStates, assumedPods>>
    BY <1>4 DEF ForgetPod
  <2> QED BY <1>1, <1>2, <2>1 DEF CacheInv, TypeOK, PodInv, AssumedAreKnown, Placement,
             Count, CountIn, Known, WatchMirrored, FinishedHasDeadline, NodeInv,
             NoLeakedItem, NodeOf, ImageStatesExact, SnapInv, SnapshotExact,
             SnapshotAffinityExact, AffinityIn, Keys
<1> QED BY <1>3, <1>4

\* A visit of the expiry sweep keeps the invariant.
LEMMA CleanupVisitInv ==
    ASSUME CacheInv, NEW p \in Pods, CleanupVisit(p)
    PROVE  CacheInv'
<1>1. /\ p \in sweep /\ sweep' = sweep \ {p}
      /\ UNCHANGED <<tree, imageStates, snapshot, podWatch, nodeWatch, attempt>>
  BY DEF CleanupVisit, watchVars
<1>2. p \in assumedPods /\ attempt \in [Pods -> [Nodes -> [Stage -> Nat]]]
  BY <1>1 DEF CacheInv, PodInv, TypeOK
<1>3. CASE UNCHANGED <<store, podStates, assumedPods>>
  BY <1>1, <1>3 DEF CacheInv, TypeOK, PodInv, AssumedAreKnown, Placement,
             Count, CountIn, Known, WatchMirrored, FinishedHasDeadline, NodeInv,
             NoLeakedItem, NodeOf, ImageStatesExact, SnapInv, SnapshotExact,
             SnapshotAffinityExact, AffinityIn, Keys
<1>4. CASE /\ store' = removePod(store, p, podStates[p].node)
           /\ assumedPods' = assumedPods \ {p}
           /\ podStates' = [podStates EXCEPT ![p] = NoState]
  BY <1>1, <1>2, <1>4, RemoveAssumed
<1> QED BY <1>3, <1>4 DEF CleanupVisit

\* AddPod keeps the invariant: confirmed, confirmed elsewhere, or new.
LEMMA AddPodInv ==
    ASSUME CacheInv, sweep = {}, NEW p \in Pods, NEW n \in Nodes, AddPod(p, n)
    PROVE  CacheInv'
<1> USE DEF CacheInv
<1>1. /\ podWatch[p] = "unassigned" /\ podWatch' = [podWatch EXCEPT ![p] = n]
      /\ podWatch[p] \notin Nodes
      /\ UNCHANGED <<tree, imageStates, sweep, snapshot, nodeWatch, attempt>>
  BY WatchAssumption DEF AddPod
<1>2. ~ Known(p) \/ p \in assumedPods
  BY <1>1 DEF PodInv, WatchMirrored
<1> DEFINE Effect ==
        /\ StoreOK(store') /\ Newer(store, store')
        /\ \A q \in Pods, m \in Nodes :
              CountIn(store', q, m) = IF q = p THEN (IF m = n THEN 1 ELSE 0)
                                      ELSE CountIn(store, q, m)
        /\ \A m \in Nodes : NodeOf(store', m) = NodeOf(store, m)
        /\ NoLeak(store) => NoLeak(store')
        /\ assumedPods' = assumedPods \ {p}
        /\ podStates' \in [Pods -> PodState \cup {NoState}]
        /\ podStates'[p] # NoState /\ podStates'[p].node = n
        /\ \A q \in Pods \ {p} : podStates'[q] = podStates[q]
<1>3. ASSUME Known(p), p \in assumedPods PROVE Effect
  <2> DEFINE m == podStates[p].node
             new == [podStates[p] EXCEPT !.deadline = "nil", !.node = n]
  <2>1. /\ assumedPods' = assumedPods \ {p}
        /\ podStates' = [podStates EXCEPT ![p] = new]
        /\ store' = IF m = n THEN store ELSE addPod(removePod(store, p, m), p, n)
    BY <1>3 DEF AddPod, Known
  <2>2. podStates[p] \in PodState
    BY <1>3 DEF TypeOK, Known
  <2>3. new \in PodState /\ new.node = n /\ m \in Nodes
    BY <2>2 DEF PodState, Deadline
  <2>4. new # NoState
    BY <2>3, NoStateAssumption
  <2>5. \A k \in Nodes : CountIn(store, p, k) = IF k = m THEN 1 ELSE 0
    BY <1>3 DEF PodInv, Placement, Count
  <2> HIDE DEF m, new
  <2>6. /\ podStates' \in [Pods -> PodState \cup {NoState}]
        /\ podStates'[p] # NoState /\ podStates'[p].node = n
        /\ \A q \in Pods \ {p} : podStates'[q] = podStates[q]
    BY <2>1, <2>3, <2>4 DEF TypeOK
  <2>7. CASE m = n
    <3>1. store' = store
      BY <2>1, <2>7
    <3>2. Newer(store, store)
      BY StoreTypes DEF Newer
    <3> QED BY <2>1, <2>5, <2>6, <2>7, <3>1, <3>2
  <2>8. CASE m # n
    <3>1. store' = addPod(removePod(store, p, m), p, n)
      BY <2>1, <2>8
    <3>2. CountIn(store, p, m) = 1 /\ CountIn(store, p, n) = 0
      BY <2>3, <2>5, <2>8
    <3>3. /\ StoreOK(store') /\ Newer(store, store')
          /\ \A q \in Pods, k \in Nodes :
                CountIn(store', q, k) =
                    IF q = p THEN (IF k = n THEN 1
                                   ELSE IF k = m THEN 0 ELSE CountIn(store, q, k))
                    ELSE CountIn(store, q, k)
          /\ \A k \in Nodes : NodeOf(store', k) = NodeOf(store, k)
          /\ NoLeak(store) => NoLeak(store')
      BY <2>3, <3>1, <3>2, MovePodEffect
    <3>4. \A q \in Pods, k \in Nodes :
              CountIn(store', q, k) = IF q = p THEN (IF k = n THEN 1 ELSE 0)
                                      ELSE CountIn(store, q, k)
      BY <2>5, <3>3
    <3> QED BY <2>1, <2>6, <3>3, <3>4
  <2> QED BY <2>7, <2>8
<1>4. ASSUME ~ Known(p) PROVE Effect
  <2>1. /\ store' = addPod(store, p, n)
        /\ podStates' = [podStates EXCEPT ![p] = newPodState(n)]
        /\ assumedPods' = assumedPods
    BY <1>4 DEF AddPod, Known
  <2>2. p \notin assumedPods
    BY <1>4 DEF PodInv, AssumedAreKnown
  <2>3. \A k \in Nodes : CountIn(store, p, k) = 0
    BY <1>4 DEF PodInv, Placement, Count
  <2>4. /\ StoreOK(store') /\ Newer(store, store')
        /\ \A q \in Pods, k \in Nodes :
              CountIn(store', q, k) =
                  IF q = p /\ k = n THEN CountIn(store, q, k) + 1 ELSE CountIn(store, q, k)
        /\ \A k \in Nodes : NodeOf(store', k) = NodeOf(store, k)
        /\ NoLeak(store) => NoLeak(store')
    BY <2>1, AddPodEffect
  <2>5. /\ podStates' \in [Pods -> PodState \cup {NoState}]
        /\ podStates'[p] # NoState /\ podStates'[p].node = n
        /\ \A q \in Pods \ {p} : podStates'[q] = podStates[q]
    BY <2>1, NewPodStateFacts DEF TypeOK
  <2>6. \A q \in Pods, k \in Nodes :
            CountIn(store', q, k) = IF q = p THEN (IF k = n THEN 1 ELSE 0)
                                    ELSE CountIn(store, q, k)
    BY <2>3, <2>4
  <2> QED BY <2>1, <2>2, <2>4, <2>5, <2>6
<1>5. Effect
  BY <1>2, <1>3, <1>4
<1> HIDE DEF Effect
<1>6. TypeOK'
  BY <1>1, <1>5 DEF Effect, TypeOK, StoreOK
<1>7. PodInv'
  <2>1. AssumedAreKnown' /\ FinishedHasDeadline'
    BY <1>1, <1>5 DEF Effect, PodInv, AssumedAreKnown, FinishedHasDeadline, Known, TypeOK
  <2>2. Placement'
    BY <1>5 DEF Effect, PodInv, Placement, Count, Known
  <2>3. WatchMirrored'
    BY <1>1, <1>5 DEF Effect, PodInv, WatchMirrored, Known, TypeOK
  <2>4. sweep' \subseteq assumedPods'
    BY <1>1
  <2> QED BY <2>1, <2>2, <2>3, <2>4 DEF PodInv
<1>8. NodeInv'
  BY <1>1, <1>5, NodesKept DEF Effect
<1>9. SnapInv'
  BY <1>1, <1>5, SnapKept DEF Effect
<1> QED BY <1>5, <1>6, <1>7, <1>8, <1>9 DEF Effect

\* UpdatePod keeps the invariant: out of the node and back in.
LEMMA UpdatePodInv ==
    ASSUME CacheInv, NEW p \in Pods, UpdatePod(p)
    PROVE  CacheInv'
<1> USE DEF CacheInv
<1> DEFINE n == podWatch[p]
<1>1. /\ n \in Nodes /\ Known(p) /\ p \notin assumedPods
      /\ store' = addPod(removePod(store, p, n), p, n)
      /\ UNCHANGED <<podStates, assumedPods, tree, imageStates, sweep, snapshot,
                     podWatch, nodeWatch, attempt>>
  BY DEF UpdatePod, Known, cacheVars, watchVars
<1>2. podStates[p].node = n
  BY <1>1 DEF PodInv, WatchMirrored
<1>3. \A k \in Nodes : CountIn(store, p, k) = IF k = n THEN 1 ELSE 0
  BY <1>1, <1>2 DEF PodInv, Placement, Count
<1> HIDE DEF n
<1>4. /\ StoreOK(store') /\ Newer(store, store')
      /\ \A q \in Pods, k \in Nodes :
            CountIn(store', q, k) =
                IF q = p THEN (IF k = n THEN 1
                               ELSE IF k = n THEN 0 ELSE CountIn(store, q, k))
                ELSE CountIn(store, q, k)
      /\ \A k \in Nodes : NodeOf(store', k) = NodeOf(store, k)
      /\ NoLeak(store) => NoLeak(store')
  BY <1>1, <1>3, MovePodEffect
<1>5. \A q \in Pods, k \in Nodes : CountIn(store', q, k) = CountIn(store, q, k)
  BY <1>3, <1>4
<1>6. TypeOK'
  BY <1>1, <1>4 DEF TypeOK, StoreOK
<1>7. PodInv'
  BY <1>1, <1>5 DEF PodInv, AssumedAreKnown, Placement, Count, Known, WatchMirrored,
     FinishedHasDeadline
<1>8. NodeInv'
  BY <1>1, <1>4, NodesKept
<1>9. SnapInv'
  BY <1>1, <1>4, SnapKept
<1> QED BY <1>4, <1>6, <1>7, <1>8, <1>9

\* RemovePod keeps the invariant.
LEMMA RemovePodInv ==
    ASSUME CacheInv, NEW p \in Pods, RemovePod(p)
    PROVE  CacheInv'
<1> USE DEF CacheInv
<1> DEFINE n == podWatch[p]
<1>1. /\ n \in Nodes /\ podWatch' = [podWatch EXCEPT ![p] = "gone"]
      /\ UNCHANGED <<assumedPods, tree, imageStates, sweep, snapshot, nodeWatch, attempt>>
  BY DEF RemovePod
<1>2. Known(p) /\ p \notin assumedPods /\ podStates[p].node = n
  BY <1>1 DEF PodInv, WatchMirrored
<1>3. CountIn(store, p, n) = 1
  BY <1>1, <1>2 DEF PodInv, Placement, Count
<1> HIDE DEF n
<1>4. ~ removePodFails(store, p, n)
  BY <1>1, <1>3, RemovePodEffect
<1>5. /\ store' = removePod(store, p, n)
      /\ podStates' = [podStates EXCEPT ![p] = NoState]
  BY <1>2, <1>4 DEF RemovePod, Known
<1>6. /\ StoreOK(store') /\ Newer(store, store')
      /\ \A q \in Pods, m \in Nodes :
            CountIn(store', q, m) =
                IF q = p /\ m = n THEN CountIn(store, q, m) - 1 ELSE CountIn(store, q, m)
      /\ \A m \in Nodes : NodeOf(store', m) = NodeOf(store, m)
      /\ NoLeak(store) => NoLeak(store')
  BY <1>1, <1>3, <1>5, RemovePodEffect
<1>7. TypeOK'
  BY <1>1, <1>5, <1>6 DEF TypeOK, StoreOK
<1>8. PodInv'
  <2>1. AssumedAreKnown' /\ FinishedHasDeadline'
    BY <1>1, <1>2, <1>5 DEF PodInv, AssumedAreKnown, FinishedHasDeadline, Known, TypeOK
  <2>2. Placement'
    BY <1>2, <1>3, <1>5, <1>6 DEF PodInv, Placement, Count, Known, TypeOK
  <2>3. WatchMirrored'
    BY <1>1, <1>5, WatchAssumption DEF PodInv, WatchMirrored, Known, TypeOK
  <2> QED BY <1>1, <2>1, <2>2, <2>3 DEF PodInv
<1>9. NodeInv'
  BY <1>1, <1>6, NodesKept
<1>10. SnapInv'
  BY <1>1, <1>6, SnapKept
<1> QED BY <1>6, <1>7, <1>8, <1>9, <1>10

\* AddNode and UpdateNode do the same to the store, the tree and the images.
LEMMA SetNodeInv ==
    ASSUME CacheInv, NEW n \in Nodes, NEW obj \in NodeObject,
           nodeWatch' = [nodeWatch EXCEPT ![n] = obj],
           imageStates' = addNodeImageStates(
                removeNodeImageStates(imageStates, n, NodeOf(store, n)), n, obj),
           tree' = tree \cup {n}, store' = setNode(store, n, obj),
           UNCHANGED <<podStates, assumedPods, sweep, snapshot, podWatch, attempt>>
    PROVE  CacheInv'
<1> USE DEF CacheInv
<1>1. /\ StoreOK(store') /\ Newer(store, store')
      /\ \A q \in Pods, m \in Nodes : CountIn(store', q, m) = CountIn(store, q, m)
      /\ \A m \in Nodes : NodeOf(store', m) = IF m = n THEN obj ELSE NodeOf(store, m)
      /\ NoLeak(store) => NoLeak(store')
  BY SetNodeEffect
<1>2. obj # NoNode
  BY NoNodeAssumption DEF NodeObject
<1>3. imageStates' \in [Images -> SUBSET Nodes]
  BY DEF TypeOK, addNodeImageStates, removeNodeImageStates
<1>4. TypeOK'
  BY <1>1, <1>3 DEF TypeOK, StoreOK
<1>5. PodInv'
  BY <1>1 DEF PodInv, AssumedAreKnown, Placement, Count, Known, WatchMirrored,
     FinishedHasDeadline
<1>6. NoLeakedItem'
  BY <1>1, <1>2 DEF NodeInv, NoLeakedItem, NoLeak
<1>7. (\A m \in Nodes : NodeOf(store, m) = nodeWatch[m])'
  BY <1>1 DEF NodeInv, TypeOK
<1>8. ImageStatesExact'
  <2> SUFFICES ASSUME NEW i \in Images
               PROVE  imageStates'[i] = {m \in Nodes : /\ NodeOf(store', m) # NoNode
                                                       /\ i \in NodeOf(store', m)}
    BY DEF ImageStatesExact
  <2>1. imageStates[i] = {m \in Nodes : NodeOf(store, m) # NoNode
                                        /\ i \in NodeOf(store, m)}
    BY DEF NodeInv, ImageStatesExact
  <2> DEFINE removed == removeNodeImageStates(imageStates, n, NodeOf(store, n))
  <2>2. removed[i] = imageStates[i] \ {n}
    BY <2>1 DEF removeNodeImageStates
  <2>3. imageStates'[i] = IF i \in obj THEN removed[i] \cup {n} ELSE removed[i]
    BY DEF addNodeImageStates
  <2> HIDE DEF removed
  <2> QED BY <1>1, <1>2, <2>1, <2>2, <2>3
<1>9. SnapInv'
  BY <1>1, SnapKept
<1> QED BY <1>1, <1>4, <1>5, <1>6, <1>7, <1>8, <1>9 DEF NodeInv

\* AddNode keeps the invariant, also for a ghost that comes back.
LEMMA AddNodeInv ==
    ASSUME CacheInv, NEW n \in Nodes, NEW obj \in NodeObject, AddNode(n, obj)
    PROVE  CacheInv'
BY SetNodeInv DEF AddNode

\* A node the watch updates is in the cache, so the tree has it already.
LEMMA UpdateNodeInv ==
    ASSUME CacheInv, NEW n \in Nodes, NEW obj \in NodeObject, UpdateNode(n, obj)
    PROVE  CacheInv'
<1>1. NodeOf(store, n) # NoNode
  BY DEF UpdateNode, CacheInv, NodeInv
<1>2. tree' = tree \cup {n}
  BY <1>1 DEF UpdateNode, CacheInv, NodeInv, NoLeakedItem, NodeOf
<1> QED BY <1>2, SetNodeInv DEF UpdateNode

\* RemoveNode keeps the invariant.
LEMMA RemoveNodeInv ==
    ASSUME CacheInv, NEW n \in Nodes, RemoveNode(n)
    PROVE  CacheInv'
<1> USE DEF CacheInv
<1>1. /\ nodeWatch[n] # NoNode /\ nodeWatch' = [nodeWatch EXCEPT ![n] = NoNode]
      /\ UNCHANGED <<podStates, assumedPods, sweep, snapshot, podWatch, attempt>>
  BY DEF RemoveNode
<1>2. NodeOf(store, n) = nodeWatch[n]
  BY DEF NodeInv
<1>3. store.nodes[n] # NoItem /\ n \in tree
  BY <1>1, <1>2 DEF NodeInv, NoLeakedItem, NodeOf
<1>4. /\ store' = removeNode(store, n) /\ tree' = tree \ {n}
      /\ imageStates' = removeNodeImageStates(imageStates, n, nodeWatch[n])
  BY <1>3 DEF RemoveNode
<1>5. /\ StoreOK(store') /\ Newer(store, store')
      /\ \A q \in Pods, m \in Nodes : CountIn(store', q, m) = CountIn(store, q, m)
      /\ \A m \in Nodes : NodeOf(store', m) = IF m = n THEN NoNode ELSE NodeOf(store, m)
      /\ NoLeak(store) => NoLeak(store')
  BY <1>3, <1>4, RemoveNodeEffect
<1>6. imageStates' \in [Images -> SUBSET Nodes]
  BY <1>4 DEF TypeOK, removeNodeImageStates
<1>7. TypeOK'
  BY <1>1, <1>4, <1>5, <1>6 DEF TypeOK, StoreOK
<1>8. PodInv'
  BY <1>1, <1>5 DEF PodInv, AssumedAreKnown, Placement, Count, Known, WatchMirrored,
     FinishedHasDeadline
<1>9. NoLeakedItem'
  BY <1>4, <1>5 DEF NodeInv, NoLeakedItem, NoLeak
<1>10. (\A m \in Nodes : NodeOf(store, m) = nodeWatch[m])'
  BY <1>1, <1>5 DEF NodeInv, TypeOK
<1>11. ImageStatesExact'
  <2> SUFFICES ASSUME NEW i \in Images
               PROVE  imageStates'[i] = {m \in Nodes : /\ NodeOf(store', m) # NoNode
                                                       /\ i \in NodeOf(store', m)}
    BY DEF ImageStatesExact
  <2>1. imageStates[i] = {m \in Nodes : NodeOf(store, m) # NoNode
                                        /\ i \in NodeOf(store, m)}
    BY DEF NodeInv, ImageStatesExact
  <2>2. imageStates'[i] = imageStates[i] \ {n}
    BY <1>2, <1>4, <2>1 DEF removeNodeImageStates
  <2> QED BY <1>5, <2>1, <2>2
<1>12. SnapInv'
  BY <1>1, <1>5, SnapKept
<1> QED BY <1>5, <1>7, <1>8, <1>9, <1>10, <1>11, <1>12 DEF NodeInv

\* The passing of a deadline keeps the invariant.
LEMMA DeadlinePassesInv ==
    ASSUME CacheInv, NEW p \in Pods, DeadlinePasses(p)
    PROVE  CacheInv'
<1> USE DEF CacheInv
<1> DEFINE new == [podStates[p] EXCEPT !.deadline = "passed"]
<1>1. /\ podStates[p] # NoState
      /\ podStates' = [podStates EXCEPT ![p] = new]
      /\ UNCHANGED <<store, assumedPods, tree, imageStates, sweep, snapshot,
                     podWatch, nodeWatch, attempt>>
  BY DEF DeadlinePasses, watchVars
<1>2. podStates[p] \in PodState
  BY <1>1 DEF TypeOK
<1>3. new \in PodState /\ new.node = podStates[p].node /\ new.deadline # "nil"
  BY <1>2 DEF PodState, Deadline
<1>4. new # NoState
  BY <1>3, NoStateAssumption
<1> HIDE DEF new
<1>5. TypeOK'
  BY <1>1, <1>3 DEF TypeOK
<1>6. PodInv'
  <2>1. AssumedAreKnown' /\ WatchMirrored'
    BY <1>1, <1>3, <1>4 DEF PodInv, AssumedAreKnown, Known, WatchMirrored, TypeOK
  <2>2. Placement'
    BY <1>1, <1>3, <1>4 DEF PodInv, Placement, Count, CountIn, Known, TypeOK
  <2>3. FinishedHasDeadline'
    BY <1>1, <1>3 DEF PodInv, FinishedHasDeadline, TypeOK
  <2> QED BY <1>1, <2>1, <2>2, <2>3 DEF PodInv
<1>7. NodeInv'
  BY <1>1 DEF NodeInv, NoLeakedItem, NodeOf, ImageStatesExact
<1>8. SnapInv'
  BY <1>1 DEF SnapInv, SnapshotExact, NodeOf, SnapshotAffinityExact, AffinityIn, Keys
<1> QED BY <1>1, <1>5, <1>6, <1>7, <1>8

\* Steps that touch neither the store nor the pod states.
LEMMA BystanderInv ==
    ASSUME CacheInv, UNCHANGED <<store, podStates, assumedPods, tree, imageStates,
                                 snapshot, nodeWatch>>,
           sweep' \subseteq assumedPods,
           \A p \in Pods : podWatch'[p] \in Nodes \/ podWatch[p] \in Nodes
                              => podWatch'[p] = podWatch[p],
           podWatch' \in [Pods -> Nodes \cup {"unassigned", "gone"}],
           attempt' \in [Pods -> [Nodes -> [Stage -> Nat]]]
    PROVE  CacheInv'
<1> USE DEF CacheInv
<1>1. TypeOK'
  BY DEF TypeOK
<1>2. PodInv'
  BY DEF PodInv, AssumedAreKnown, Placement, Count, CountIn, Known, WatchMirrored,
     FinishedHasDeadline
<1>3. NodeInv'
  BY DEF NodeInv, NoLeakedItem, NodeOf, ImageStatesExact
<1>4. SnapInv'
  BY DEF SnapInv, SnapshotExact, NodeOf, SnapshotAffinityExact, AffinityIn, Keys
<1> QED BY <1>1, <1>2, <1>3, <1>4

\* The deletion of a pod the cache never saw keeps the invariant.
LEMMA UnassignedPodGoneInv ==
    ASSUME CacheInv, NEW p \in Pods, UnassignedPodGone(p)
    PROVE  CacheInv'
<1>1. /\ podWatch[p] = "unassigned" /\ podWatch' = [podWatch EXCEPT ![p] = "gone"]
      /\ UNCHANGED <<store, podStates, assumedPods, tree, imageStates, sweep,
                     snapshot, nodeWatch, attempt>>
  BY DEF UnassignedPodGone, cacheVars
<1>2. /\ podWatch' \in [Pods -> Nodes \cup {"unassigned", "gone"}]
      /\ attempt \in [Pods -> [Nodes -> [Stage -> Nat]]]
      /\ sweep \subseteq assumedPods
  BY <1>1 DEF CacheInv, TypeOK, PodInv
<1>3. podWatch[p] \notin Nodes /\ podWatch'[p] \notin Nodes
  BY <1>1, WatchAssumption DEF CacheInv, TypeOK
<1>4. \A q \in Pods : podWatch'[q] \in Nodes \/ podWatch[q] \in Nodes
                         => podWatch'[q] = podWatch[q]
  BY <1>1, <1>3 DEF CacheInv, TypeOK
<1> QED BY <1>1, <1>2, <1>4, BystanderInv

\* The end of a binding cycle keeps the invariant.
LEMMA BindSucceededInv ==
    ASSUME CacheInv, NEW p \in Pods, NEW n \in Nodes, BindSucceeded(p, n)
    PROVE  CacheInv'
<1>1. /\ attempt[p][n]["finished"] > 0
      /\ attempt' = Moved(p, n, "finished", "none")
      /\ UNCHANGED <<store, podStates, assumedPods, tree, imageStates, sweep,
                     snapshot, podWatch, nodeWatch>>
  BY DEF BindSucceeded, cacheVars, watchVars
<1>2. /\ podWatch \in [Pods -> Nodes \cup {"unassigned", "gone"}]
      /\ sweep \subseteq assumedPods
  BY DEF CacheInv, TypeOK, PodInv
<1>3. attempt' \in [Pods -> [Nodes -> [Stage -> Nat]]]
  BY <1>1, MovedType DEF CacheInv, TypeOK, Stage
<1> QED BY <1>1, <1>2, <1>3, BystanderInv

\* The start of a sweep keeps the invariant.
LEMMA CleanupStartInv ==
    ASSUME CacheInv, CleanupStart
    PROVE  CacheInv'
<1>1. /\ sweep' = assumedPods
      /\ UNCHANGED <<store, podStates, assumedPods, tree, imageStates,
                     snapshot, podWatch, nodeWatch, attempt>>
  BY DEF CleanupStart, cacheVars, watchVars
<1>2. /\ podWatch \in [Pods -> Nodes \cup {"unassigned", "gone"}]
      /\ attempt \in [Pods -> [Nodes -> [Stage -> Nat]]]
  BY DEF CacheInv, TypeOK
<1> QED BY <1>1, <1>2, BystanderInv

-----------------------------------------------------------------------------
(* UpdateSnapshot.                                                         *)

\* Because the list is sorted, stopping at the first item that is not newer than
\* the snapshot misses none that is.
LEMMA VisitedExact ==
    ASSUME TypeOK, StoreOK(store)
    PROVE  Visited = {n \in Keys(store.nodes) :
                         store.nodes[n].gen > snapshot.generation}
<1> DEFINE list == store.list
           Newest(k) == \A j \in 1..k : store.nodes[list[j]].gen > snapshot.generation
<1>0. snapshot.generation \in Nat
  BY DEF TypeOK, Snapshot
<1>1. /\ list \in Seq(Nodes) /\ Len(list) \in Nat /\ snapshot.generation \in Nat
      /\ \A k \in 1..Len(list) : /\ list[k] \in Nodes
                                 /\ store.nodes[list[k]] # NoItem
                                 /\ store.nodes[list[k]].gen \in Nat
  BY <1>0, StoreTypes DEF StoreOK
<1>2. Visited = {list[k] : k \in {i \in 1..Len(list) : Newest(i)}}
  BY DEF Visited
<1>3. ASSUME NEW n \in Visited
      PROVE  n \in Keys(store.nodes) /\ store.nodes[n].gen > snapshot.generation
  <2>1. PICK k \in 1..Len(list) : Newest(k) /\ n = list[k]
    BY <1>2
  <2>2. k \in 1..k
    BY <1>1
  <2> QED BY <1>1, <2>1, <2>2 DEF Keys
<1>4. ASSUME NEW n \in Keys(store.nodes), store.nodes[n].gen > snapshot.generation
      PROVE  n \in Visited
  <2>1. PICK k \in 1..Len(list) : list[k] = n
    BY DEF StoreOK, Linked, Keys
  <2>2. ASSUME NEW j \in 1..k
        PROVE  store.nodes[list[j]].gen > snapshot.generation
    <3>1. j \in 1..Len(list) /\ (j < k \/ j = k)
      BY <1>1
    <3>2. j < k => store.nodes[list[j]].gen > store.nodes[list[k]].gen
      BY <3>1 DEF StoreOK, ItemGen
    <3> QED BY <1>1, <1>4, <2>1, <3>1, <3>2
  <2>3. Newest(k)
    BY <2>2
  <2> QED BY <1>2, <2>1, <2>3
<1>5. Keys(store.nodes) \subseteq Nodes
  BY DEF Keys
<1> QED BY <1>3, <1>4, <1>5

\* After the walk the map has the cached NodeInfo of every node that has one.
LEMMA CopiedMapFacts ==
    ASSUME CacheInv
    PROVE  /\ CopiedMap \in [Nodes -> NodeInfoType \cup {NoItem}]
           /\ \A n \in Nodes : NodeOf(store, n) # NoNode => CopiedMap[n] = store.nodes[n]
           /\ \A n \in Nodes : snapshot.nodeInfoMap[n] # NoItem => CopiedMap[n] # NoItem
<1> USE DEF CacheInv
<1>1. /\ snapshot.nodeInfoMap \in [Nodes -> NodeInfoType \cup {NoItem}]
      /\ snapshot.generation \in Nat
      /\ store.nodes \in [Nodes -> NodeInfoType \cup {NoItem}]
  BY StoreTypes DEF TypeOK, Snapshot
<1>2. \A n \in Cloned : n \in Nodes /\ store.nodes[n] # NoItem
  BY VisitedExact DEF Cloned, Keys
<1>3. ASSUME NEW n \in Nodes, NodeOf(store, n) # NoNode
      PROVE  CopiedMap[n] = store.nodes[n]
  <2>1. store.nodes[n] # NoItem /\ store.nodes[n].gen \in Nat
    BY <1>3, StoreTypes DEF NodeOf
  <2>2. CASE store.nodes[n].gen > snapshot.generation
    <3>1. n \in Cloned
      BY <1>3, <2>1, <2>2, VisitedExact DEF Cloned, Keys
    <3> QED BY <3>1 DEF CopiedMap
  <2>3. CASE store.nodes[n].gen <= snapshot.generation
    BY <1>3, <2>3 DEF CopiedMap, SnapInv, SnapshotExact
  <2> QED BY <1>1, <2>1, <2>2, <2>3
<1> QED BY <1>1, <1>2, <1>3 DEF CopiedMap

\* What UpdateSnapshot leaves behind, whether it reports success or not.
LEMMA UpdateSnapshotEffect ==
    ASSUME CacheInv, UpdateSnapshot
    PROVE  /\ SnapInv' /\ snapshot' \in Snapshot
           /\ \A n \in tree : snapshot'.nodeInfoMap[n] # NoItem
           /\ ~ snapshot'.ok => snapshot'.nodeInfoList = tree
           /\ UNCHANGED <<store, podStates, assumedPods, tree, imageStates, sweep,
                          podWatch, nodeWatch, attempt>>
<1> USE DEF CacheInv
<1>1. PICK D \in DeletedNodes :
        LET map == [n \in Nodes |-> IF n \in D THEN NoItem ELSE CopiedMap[n]]
            updateAllLists == SomeNodeNew \/ D # {}
            list == IF updateAllLists THEN ListOf(map) ELSE snapshot.nodeInfoList
            ok == Cardinality(list) = Cardinality(tree)
            recovered == IF ok THEN list ELSE ListOf(map)
        IN  snapshot' =
             [nodeInfoMap |-> map,
              nodeInfoList |-> recovered,
              havePodsWithAffinity |->
                 IF updateAllLists \/ AffinityFlipped \/ ~ ok
                 THEN {n \in recovered : HasPodsWithAffinity(map[n])}
                 ELSE snapshot.havePodsWithAffinity,
              generation |-> IF store.list = <<>> THEN snapshot.generation
                             ELSE store.nodes[store.list[1]].gen,
              ok |-> ok]
  BY DEF UpdateSnapshot
<1> DEFINE map == [n \in Nodes |-> IF n \in D THEN NoItem ELSE CopiedMap[n]]
           updateAllLists == SomeNodeNew \/ D # {}
           list == IF updateAllLists THEN ListOf(map) ELSE snapshot.nodeInfoList
           ok == Cardinality(list) = Cardinality(tree)
           recovered == IF ok THEN list ELSE ListOf(map)
<1>2. UNCHANGED <<store, podStates, assumedPods, tree, imageStates, sweep,
                  podWatch, nodeWatch, attempt>>
  BY DEF UpdateSnapshot, cacheVars, watchVars
<1>3. \A n \in D : n \in Nodes /\ store.nodes[n] = NoItem
  BY DEF DeletedNodes, Keys
<1>4. /\ CopiedMap \in [Nodes -> NodeInfoType \cup {NoItem}]
      /\ \A n \in Nodes : NodeOf(store, n) # NoNode => CopiedMap[n] = store.nodes[n]
      /\ \A n \in Nodes : snapshot.nodeInfoMap[n] # NoItem => CopiedMap[n] # NoItem
  BY CopiedMapFacts
<1>5. /\ snapshot.nodeInfoMap \in [Nodes -> NodeInfoType \cup {NoItem}]
      /\ snapshot.nodeInfoList \subseteq Nodes /\ snapshot.generation \in Nat
      /\ snapshot.havePodsWithAffinity \subseteq Nodes /\ tree \subseteq Nodes
  BY DEF TypeOK, Snapshot
<1>6. /\ map \in [Nodes -> NodeInfoType \cup {NoItem}]
      /\ \A n \in Nodes : NodeOf(store, n) # NoNode => map[n] = store.nodes[n]
      /\ D = {} => \A n \in Nodes : map[n] = CopiedMap[n]
  BY <1>3, <1>4 DEF NodeOf
<1> HIDE DEF map
<1>7. recovered \subseteq Keys(map)
  <2>1. ListOf(map) \subseteq Keys(map)
    BY DEF ListOf
  <2>2. CASE ~ updateAllLists
    <3>1. snapshot.nodeInfoList \subseteq Keys(map)
      BY <1>4, <1>5, <1>6, <2>2 DEF SnapInv, Keys
    <3> QED BY <2>1, <3>1
  <2>3. CASE updateAllLists
    BY <2>1, <2>3
  <2> QED BY <2>2, <2>3
<1>8. Keys(map) \subseteq Nodes
  BY DEF Keys
<1>9. tree \subseteq Keys(map)
  <2> SUFFICES ASSUME NEW n \in tree PROVE map[n] # NoItem
    BY <1>5 DEF Keys
  <2>1. n \in Nodes /\ NodeOf(store, n) # NoNode
    BY DEF NodeInv, NoLeakedItem
  <2> QED BY <1>6, <2>1 DEF NodeOf
<1>10. ListOf(map) = tree
  BY <1>9 DEF ListOf
<1> DEFINE gen == IF store.list = <<>> THEN snapshot.generation
                  ELSE store.nodes[store.list[1]].gen
           affinity == IF updateAllLists \/ AffinityFlipped \/ ~ ok
                       THEN {n \in recovered : HasPodsWithAffinity(map[n])}
                       ELSE snapshot.havePodsWithAffinity
<1>11. gen \in Nat /\ gen <= store.generation
  <2>1. CASE store.list = <<>>
    BY <1>5, <2>1 DEF SnapInv
  <2>2. CASE store.list # <<>>
    <3>1. store.list \in Seq(Nodes) /\ 1 \in 1..Len(store.list)
      BY <2>2, StoreTypes
    <3>2. store.list[1] \in Nodes /\ store.nodes[store.list[1]] # NoItem
      BY <3>1 DEF StoreOK
    <3> QED BY <2>2, <3>2, StoreTypes
  <2> QED BY <2>1, <2>2
<1>12. affinity = {n \in recovered : AffinityIn(map, n)}
  <2>1. \A n \in recovered : n \in Nodes /\ (AffinityIn(map, n) <=> HasPodsWithAffinity(map[n]))
    BY <1>7, <1>8 DEF AffinityIn, Keys
  <2>2. CASE updateAllLists \/ AffinityFlipped \/ ~ ok
    BY <2>1, <2>2
  <2>3. CASE ~ (updateAllLists \/ AffinityFlipped \/ ~ ok)
    <3>1. recovered = snapshot.nodeInfoList /\ affinity = snapshot.havePodsWithAffinity
      BY <2>3
    <3>2. affinity = {n \in recovered : AffinityIn(snapshot.nodeInfoMap, n)}
      BY <3>1 DEF SnapInv, SnapshotAffinityExact
    <3>3. ASSUME NEW n \in Nodes
          PROVE  AffinityIn(map, n) <=> AffinityIn(snapshot.nodeInfoMap, n)
      <4>1. AffinityIn(map, n) <=> AffinityIn(CopiedMap, n)
        BY <1>6, <2>3 DEF AffinityIn
      <4>2. CASE n \in Cloned
        BY <2>3, <4>1, <4>2 DEF AffinityFlipped
      <4>3. CASE n \notin Cloned
        BY <4>1, <4>3 DEF AffinityIn, CopiedMap
      <4> QED BY <4>2, <4>3
    <3> QED BY <2>1, <3>2, <3>3
  <2> QED BY <2>2, <2>3
<1> HIDE DEF gen, affinity, recovered, ok
<1>13. snapshot' = [nodeInfoMap |-> map, nodeInfoList |-> recovered,
                    havePodsWithAffinity |-> affinity, generation |-> gen, ok |-> ok]
  BY <1>1 DEF map, recovered, affinity, gen, ok
<1>14. ok \in BOOLEAN
  BY DEF ok
<1>15. affinity \subseteq recovered
  BY <1>12
<1>16. snapshot' \in Snapshot
  BY <1>6, <1>7, <1>8, <1>11, <1>13, <1>14, <1>15 DEF Snapshot
<1>17. SnapInv'
  <2>1. SnapshotExact'
    BY <1>2, <1>6, <1>13 DEF SnapshotExact, NodeOf
  <2>2. (snapshot.generation <= store.generation)'
    BY <1>2, <1>11, <1>13
  <2>3. (snapshot.nodeInfoList \subseteq Keys(snapshot.nodeInfoMap))'
    BY <1>7, <1>13 DEF Keys
  <2>4. SnapshotAffinityExact'
    BY <1>12, <1>13 DEF SnapshotAffinityExact, AffinityIn
  <2> QED BY <2>1, <2>2, <2>3, <2>4 DEF SnapInv
<1>18. \A n \in tree : snapshot'.nodeInfoMap[n] # NoItem
  BY <1>9, <1>13 DEF Keys
<1>19. ~ snapshot'.ok => snapshot'.nodeInfoList = tree
  BY <1>10, <1>13 DEF recovered
<1> QED BY <1>2, <1>16, <1>17, <1>18, <1>19

\* UpdateSnapshot keeps the invariant.
LEMMA UpdateSnapshotInv ==
    ASSUME CacheInv, UpdateSnapshot
    PROVE  CacheInv'
<1> USE DEF CacheInv
<1>1. /\ SnapInv' /\ snapshot' \in Snapshot
      /\ UNCHANGED <<store, podStates, assumedPods, tree, imageStates, sweep,
                     podWatch, nodeWatch, attempt>>
  BY UpdateSnapshotEffect
<1>2. TypeOK'
  BY <1>1 DEF TypeOK
<1>3. PodInv'
  BY <1>1 DEF PodInv, AssumedAreKnown, Placement, Count, CountIn, Known, WatchMirrored,
     FinishedHasDeadline
<1>4. NodeInv'
  BY <1>1 DEF NodeInv, NoLeakedItem, NodeOf, ImageStatesExact
<1> QED BY <1>1, <1>2, <1>3, <1>4

-----------------------------------------------------------------------------
(* The theorems.                                                           *)

\* Every step keeps the invariant.
LEMMA NextInv == CacheInv /\ [Next]_vars => CacheInv'
<1> SUFFICES ASSUME CacheInv, [Next]_vars PROVE CacheInv'
  OBVIOUS
<1>1. CASE sweep = {} /\ Operation
  BY <1>1, AssumePodInv, FinishBindingInv, ForgetPodInv, BindSucceededInv, AddPodInv,
     UpdatePodInv, RemovePodInv, UnassignedPodGoneInv, AddNodeInv, UpdateNodeInv,
     RemoveNodeInv, UpdateSnapshotInv, CleanupStartInv DEF Operation
<1>2. CASE \E p \in Pods : CleanupVisit(p)
  BY <1>2, CleanupVisitInv
<1>3. CASE \E p \in Pods : DeadlinePasses(p)
  BY <1>3, DeadlinePassesInv
<1>4. CASE UNCHANGED vars
  <2>1. UNCHANGED <<store, podStates, assumedPods, tree, imageStates, sweep, snapshot,
                    podWatch, nodeWatch, attempt>>
    BY <1>4 DEF vars
  <2>2. /\ sweep \subseteq assumedPods
        /\ podWatch \in [Pods -> Nodes \cup {"unassigned", "gone"}]
        /\ attempt \in [Pods -> [Nodes -> [Stage -> Nat]]]
    BY DEF CacheInv, PodInv, TypeOK
  <2> QED BY <2>1, <2>2, BystanderInv
<1> QED BY <1>1, <1>2, <1>3, <1>4 DEF Next

\* The invariant of the whole cache: types, the linked list, the pod and node
\* bookkeeping and the incremental snapshot.
THEOREM CacheInvariant == Spec => []CacheInv
<1>1. Init => CacheInv
  BY InitInv
<1>2. CacheInv /\ [Next]_vars => CacheInv'
  BY NextInv
<1> QED BY <1>1, <1>2, PTL DEF Spec

\* schedulerCache's fields keep their types.
THEOREM CacheTypes == Spec => []TypeOK
<1>1. CacheInv => TypeOK
  BY DEF CacheInv
<1> QED BY <1>1, CacheInvariant, PTL

\* klog.Fatal and the nil deadline of cleanupAssumedPods and the klog.Fatalf of
\* UpdatePod and RemovePod are never reached.
THEOREM CacheNoFatalBranch == Spec => []NoFatalBranch
<1>1. CacheInv => NoFatalBranch
  BY DEF CacheInv, PodInv, NoFatalBranch
<1> QED BY <1>1, CacheInvariant, PTL

\* The cache's books: pods are accounted for once and on their node, ghost nodes
\* leave with their last pod, the list has each item once and newest first, and
\* tree and imageStates have the nodes that exist.
THEOREM CacheStoreExact == Spec => []StoreExact
<1>1. CacheInv => Placement
  BY DEF CacheInv, PodInv
<1>2. CacheInv => NoLeakedItem /\ ImageStatesExact
  BY DEF CacheInv, NodeInv
<1>3. CacheInv => ListSorted
  <2> SUFFICES ASSUME StoreOK(store) PROVE ListSorted
    BY DEF CacheInv
  <2>1. store.list \in Seq(Nodes)
    BY StoreTypes
  <2>2. {store.list[i] : i \in 1..Len(store.list)} = Keys(store.nodes)
    BY <2>1 DEF StoreOK, Linked, Keys
  <2> QED BY <2>2 DEF ListSorted, StoreOK, ItemGen
<1>4. CacheInv => StoreExact
  BY <1>1, <1>2, <1>3 DEF StoreExact
<1> QED BY <1>4, CacheInvariant, PTL

\* The incremental snapshot misses no change, and its list of nodes with
\* affinity pods is exact.
THEOREM CacheSnapshotCopies == Spec => []SnapshotCopies
<1>1. CacheInv => SnapshotCopies
  BY DEF CacheInv, SnapInv, SnapshotCopies
<1> QED BY <1>1, CacheInvariant, PTL

\* An assumed pod is dropped only by a binding cycle of its own or by the sweep
\* after FinishBinding: never while it is still being bound.
THEOREM CacheKeptWhileBinding == Spec => KeptWhileBinding
<1> DEFINE A == \A p \in assumedPods :
                  podStates'[p] = NoState =>
                      podStates[p].bindingFinished \/ attempt'[p] # attempt[p]
<1>1. CacheInv /\ [Next]_vars => [A]_vars
  <2> SUFFICES ASSUME CacheInv, Next, NEW p \in assumedPods, podStates'[p] = NoState,
                      attempt'[p] = attempt[p]
               PROVE  podStates[p].bindingFinished
    OBVIOUS
  <2>1. /\ p \in Pods /\ podStates[p] # NoState
        /\ podStates \in [Pods -> PodState \cup {NoState}]
    BY DEF CacheInv, TypeOK, PodInv, AssumedAreKnown, Known
  <2>2. PICK q \in Pods : podStates'[q] # podStates[q] /\ q = p
    BY <2>1
  <2>3. CASE \E r \in Pods, n \in Nodes : ForgetPod(r, n)
    <3>1. PICK r \in Pods, n \in Nodes : ForgetPod(r, n)
      BY <2>3
    <3>2. r = p
      BY <2>1, <2>2, <3>1 DEF ForgetPod
    <3>3. PICK s \in Stage : attempt[p][n][s] > 0 /\ attempt' = Moved(p, n, s, "none")
      BY <3>1, <3>2 DEF ForgetPod
    <3>4. attempt'[p][n][s] = attempt[p][n][s] - 1
      BY <2>1, <3>3 DEF Moved, CacheInv, TypeOK, Stage
    <3> QED BY <2>1, <3>3, <3>4 DEF CacheInv, TypeOK
  <2>4. CASE \E r \in Pods : CleanupVisit(r)
    BY <2>1, <2>2, <2>4 DEF CleanupVisit
  <2>5. CASE \E r \in Pods, n \in Nodes : AssumePod(r, n) \/ AddPod(r, n)
    <3>1. PICK r \in Pods, n \in Nodes : AssumePod(r, n) \/ AddPod(r, n)
      BY <2>5
    <3>2. CASE AssumePod(r, n)
      BY <2>1, <3>2, NewPodStateFacts DEF AssumePod
    <3>3. CASE AddPod(r, n)
      <4>1. r = p
        BY <2>1, <2>2, <3>3 DEF AddPod
      <4>2. podStates'[p] \in PodState
        BY <2>1, <3>3, <4>1, NewPodStateFacts DEF AddPod, PodState, Deadline
      <4> QED BY <4>2, NoStateAssumption
    <3> QED BY <3>1, <3>2, <3>3
  <2>6. CASE \E r \in Pods, n \in Nodes : FinishBinding(r, n)
    <3>1. PICK r \in Pods, n \in Nodes : FinishBinding(r, n)
      BY <2>6
    <3>2. r = p
      BY <2>1, <2>2, <3>1 DEF FinishBinding
    <3> DEFINE new == [podStates[p] EXCEPT !.bindingFinished = TRUE,
                                           !.deadline = "ahead"]
    <3>3. new \in PodState
      BY <2>1 DEF PodState, Deadline
    <3>4. podStates' = [podStates EXCEPT ![p] = new]
      BY <2>1, <3>1, <3>2 DEF FinishBinding
    <3> HIDE DEF new
    <3>5. podStates'[p] \in PodState
      BY <2>1, <3>3, <3>4
    <3> QED BY <3>5, NoStateAssumption
  <2>7. CASE \E r \in Pods : DeadlinePasses(r)
    <3>1. PICK r \in Pods : DeadlinePasses(r)
      BY <2>7
    <3>2. r = p
      BY <2>1, <2>2, <3>1 DEF DeadlinePasses
    <3>3. podStates'[p] \in PodState
      BY <2>1, <3>1, <3>2 DEF DeadlinePasses, PodState, Deadline
    <3> QED BY <3>3, NoStateAssumption
  <2>8. CASE \E r \in Pods : RemovePod(r)
    BY <2>1, <2>2, <2>8 DEF RemovePod
  <2>9. CASE \E r \in Pods : UpdatePod(r)
    BY <2>2, <2>9 DEF UpdatePod, cacheVars
  <2>10. CASE podStates' = podStates
    BY <2>2, <2>10
  <2>11. CASE sweep = {} /\ Operation
    <3>1. \/ \E r \in Pods, n \in Nodes : \/ AssumePod(r, n) \/ AddPod(r, n)
                                          \/ FinishBinding(r, n) \/ ForgetPod(r, n)
          \/ \E r \in Pods : UpdatePod(r) \/ RemovePod(r)
          \/ podStates' = podStates
      BY <2>11 DEF Operation, BindSucceeded, UnassignedPodGone, AddNode, UpdateNode,
         RemoveNode, UpdateSnapshot, CleanupStart, cacheVars
    <3> QED BY <3>1, <2>3, <2>5, <2>6, <2>8, <2>9, <2>10
  <2> QED BY <2>4, <2>7, <2>11 DEF Next
<1> QED BY <1>1, CacheInvariant, PTL DEF Spec, KeptWhileBinding

\* An UpdateSnapshot that reports an inconsistency has repaired the list.
THEOREM CacheSnapshotRecovers == Spec => SnapshotRecovers
<1> DEFINE A == snapshot' # snapshot /\ ~ snapshot'.ok => snapshot'.nodeInfoList = tree
<1>1. CacheInv /\ [Next]_vars => [A]_vars
  <2> SUFFICES ASSUME CacheInv, Next, snapshot' # snapshot, ~ snapshot'.ok
               PROVE  snapshot'.nodeInfoList = tree
    OBVIOUS
  <2>1. UpdateSnapshot
    <3>1. Operation
      BY DEF Next, CleanupVisit, DeadlinePasses
    <3>2. ~ \E p \in Pods, n \in Nodes :
               \/ AssumePod(p, n) \/ FinishBinding(p, n) \/ ForgetPod(p, n)
               \/ BindSucceeded(p, n) \/ AddPod(p, n)
      <4> SUFFICES ASSUME NEW p \in Pods, NEW n \in Nodes
                   PROVE  ~ (\/ AssumePod(p, n) \/ FinishBinding(p, n) \/ ForgetPod(p, n)
                             \/ BindSucceeded(p, n) \/ AddPod(p, n))
        OBVIOUS
      <4>1. ~ AssumePod(p, n) /\ ~ AddPod(p, n)
        BY DEF AssumePod, AddPod
      <4>2. ~ FinishBinding(p, n) /\ ~ ForgetPod(p, n) /\ ~ BindSucceeded(p, n)
        BY DEF FinishBinding, ForgetPod, BindSucceeded
      <4> QED BY <4>1, <4>2
    <3>3. ~ \E p \in Pods : UpdatePod(p) \/ RemovePod(p) \/ UnassignedPodGone(p)
      BY DEF UpdatePod, RemovePod, UnassignedPodGone
    <3>4. ~ \E n \in Nodes, obj \in NodeObject : AddNode(n, obj) \/ UpdateNode(n, obj)
      BY DEF AddNode, UpdateNode
    <3>5. ~ \E n \in Nodes : RemoveNode(n)
      BY DEF RemoveNode
    <3>6. ~ CleanupStart
      BY DEF CleanupStart
    <3> QED BY <3>1, <3>2, <3>3, <3>4, <3>5, <3>6 DEF Operation
  <2> QED BY <2>1, UpdateSnapshotEffect
<1> QED BY <1>1, CacheInvariant, PTL DEF Spec, SnapshotRecovers

-----------------------------------------------------------------------------
(* The cache implements the state machine of its interface.  By Placement  *)
(* the aggregates follow from the pod states, so a step is judged by what  *)
(* it does to podStates and assumedPods.                                   *)

On(n) == {p \in Pods : Known(p) /\ podStates[p].node = n}

\* By Placement a node aggregates exactly the pods whose podState names it.
LEMMA AggregatedIsOn ==
    ASSUME Placement
    PROVE  Aggregated = [n \in Nodes |-> On(n)]
<1>1. \A n \in Nodes : {p \in Pods : Count(p, n) > 0} = On(n)
  BY DEF Placement, On
<1> QED BY <1>1 DEF Aggregated

\* The same after a step.
LEMMA AggregatedIsOnNext ==
    ASSUME Placement'
    PROVE  Aggregated' = [n \in Nodes |-> On(n)']
<1>1. \A n \in Nodes : {p \in Pods : Count(p, n)' > 0} = On(n)'
  BY DEF Placement, On
<1> QED BY <1>1 DEF Aggregated

\* Steps that keep pod states, up to the deadline, are invisible.
LEMMA Invisible ==
    ASSUME CacheInv, CacheInv', assumedPods' = assumedPods,
           \A p \in Pods :
              /\ podStates'[p] = NoState <=> podStates[p] = NoState
              /\ podStates[p] # NoState =>
                    /\ podStates'[p].node = podStates[p].node
                    /\ podStates'[p].bindingFinished = podStates[p].bindingFinished
    PROVE  UNCHANGED Interface!vars
<1>1. Phase' = Phase
  BY DEF Phase, Known
<1>2. Expirable' = Expirable
  BY DEF Expirable, CacheInv, PodInv, AssumedAreKnown, Known, TypeOK
<1>3. Aggregated' = Aggregated
  <2>1. Aggregated = [n \in Nodes |-> On(n)]
    BY AggregatedIsOn DEF CacheInv, PodInv
  <2>2. Aggregated' = [n \in Nodes |-> On(n)']
    BY AggregatedIsOnNext DEF CacheInv, PodInv
  <2>3. \A n \in Nodes : On(n)' = On(n)
    BY DEF On, Known
  <2> QED BY <2>1, <2>2, <2>3
<1> QED BY <1>1, <1>2, <1>3 DEF Interface!vars

\* One pod enters the cache, or is confirmed, on node n.
LEMMA EntersOn ==
    ASSUME CacheInv, CacheInv', NEW p \in Pods, NEW n \in Nodes,
           podStates'[p] # NoState, podStates'[p].node = n,
           \A q \in Pods \ {p} : podStates'[q] = podStates[q]
    PROVE  Aggregated' = [Interface!Subtracted(p) EXCEPT ![n] = @ \cup {p}]
<1>1. Aggregated = [m \in Nodes |-> On(m)] /\ Aggregated' = [m \in Nodes |-> On(m)']
  BY AggregatedIsOn, AggregatedIsOnNext DEF CacheInv, PodInv
<1>2. \A m \in Nodes : On(m)' = IF m = n THEN (On(m) \ {p}) \cup {p} ELSE On(m) \ {p}
  BY DEF On, Known
<1> QED BY <1>1, <1>2 DEF Interface!Subtracted

\* One pod leaves the cache.
LEMMA Leaves ==
    ASSUME CacheInv, CacheInv', NEW p \in Pods, Known(p),
           podStates' = [podStates EXCEPT ![p] = NoState],
           assumedPods' = assumedPods \ {p}
    PROVE  /\ Aggregated' = Interface!Subtracted(p)
           /\ Phase' = [Phase EXCEPT ![p] = "Absent"]
           /\ Expirable' = Expirable \ {p}
<1>1. Aggregated = [m \in Nodes |-> On(m)] /\ Aggregated' = [m \in Nodes |-> On(m)']
  BY AggregatedIsOn, AggregatedIsOnNext DEF CacheInv, PodInv
<1>2. podStates \in [Pods -> PodState \cup {NoState}] /\ assumedPods \subseteq Pods
  BY DEF CacheInv, TypeOK
<1>3. \A m \in Nodes : On(m)' = On(m) \ {p}
  BY <1>2 DEF On, Known
<1>4. Aggregated' = Interface!Subtracted(p)
  BY <1>1, <1>3 DEF Interface!Subtracted
<1>5. Phase' = [Phase EXCEPT ![p] = "Absent"]
  BY <1>2 DEF Phase, Known
<1>6. Expirable' = Expirable \ {p}
  BY <1>2 DEF Expirable
<1> QED BY <1>4, <1>5, <1>6

\* AssumePod is the interface's Assume.
LEMMA AssumePodImplements ==
    ASSUME CacheInv, CacheInv', NEW p \in Pods, NEW n \in Nodes, AssumePod(p, n)
    PROVE  Interface!Assume(p, n)
<1>1. /\ ~ Known(p) /\ podStates' = [podStates EXCEPT ![p] = newPodState(n)]
      /\ assumedPods' = assumedPods \cup {p}
  BY DEF AssumePod, Known
<1>2. /\ podStates \in [Pods -> PodState \cup {NoState}] /\ assumedPods \subseteq Pods
      /\ p \notin assumedPods
  BY <1>1 DEF CacheInv, TypeOK, PodInv, AssumedAreKnown
<1>3. /\ podStates'[p] = newPodState(n) /\ newPodState(n) # NoState
      /\ newPodState(n).node = n /\ ~ newPodState(n).bindingFinished
      /\ \A q \in Pods \ {p} : podStates'[q] = podStates[q]
  BY <1>1, <1>2, NewPodStateFacts
<1>4. Phase[p] = "Absent" /\ Phase' = [Phase EXCEPT ![p] = "Assumed"]
  BY <1>1, <1>2, <1>3 DEF Phase, Known
<1>5. Expirable' = Expirable
  BY <1>1, <1>2, <1>3 DEF Expirable
<1>6. Aggregated' = [Interface!Subtracted(p) EXCEPT ![n] = @ \cup {p}]
  BY <1>3, EntersOn
<1>7. Interface!Subtracted(p) = Aggregated
  <2>1. \A m \in Nodes : p \notin Aggregated[m]
    BY <1>1 DEF CacheInv, PodInv, Placement, Aggregated
  <2> QED BY <2>1 DEF Interface!Subtracted, Aggregated
<1> QED BY <1>4, <1>5, <1>6, <1>7 DEF Interface!Assume

\* FinishBinding is the interface's FinishBinding, or a stutter when the pod is
\* no longer assumed.
LEMMA FinishBindingImplements ==
    ASSUME CacheInv, CacheInv', NEW p \in Pods, NEW n \in Nodes, FinishBinding(p, n)
    PROVE  Interface!FinishBinding(p) \/ UNCHANGED Interface!vars
<1>1. podStates \in [Pods -> PodState \cup {NoState}] /\ assumedPods' = assumedPods
  BY DEF CacheInv, TypeOK, FinishBinding
<1>2. CASE Known(p) /\ p \in assumedPods
  <2> DEFINE new == [podStates[p] EXCEPT !.bindingFinished = TRUE, !.deadline = "ahead"]
  <2>1. podStates' = [podStates EXCEPT ![p] = new]
    BY <1>2 DEF FinishBinding, Known
  <2>2. podStates[p] \in PodState
    BY <1>1, <1>2 DEF Known
  <2>3. new \in PodState /\ new.node = podStates[p].node /\ new.bindingFinished
    BY <2>2 DEF PodState, Deadline
  <2>4. new # NoState
    BY <2>3, NoStateAssumption
  <2> HIDE DEF new
  <2>5. Phase' = Phase /\ Phase[p] = "Assumed"
    BY <1>1, <1>2, <2>1, <2>4 DEF Phase, Known
  <2>6. Expirable' = Expirable \cup {p}
    BY <1>1, <1>2, <2>1, <2>3 DEF Expirable, CacheInv, TypeOK
  <2>7. Aggregated' = Aggregated
    <3>1. \A m \in Nodes : On(m)' = On(m)
      BY <1>1, <1>2, <2>1, <2>3, <2>4 DEF On, Known
    <3> QED BY <3>1, AggregatedIsOn, AggregatedIsOnNext DEF CacheInv, PodInv
  <2> QED BY <2>5, <2>6, <2>7 DEF Interface!FinishBinding
<1>3. CASE ~ (Known(p) /\ p \in assumedPods)
  <2>1. podStates' = podStates
    BY <1>3 DEF FinishBinding, Known
  <2> QED BY <1>1, <2>1, Invisible
<1> QED BY <1>2, <1>3

\* ForgetPod is the interface's Forget, or a stutter when it is refused.
LEMMA ForgetPodImplements ==
    ASSUME CacheInv, CacheInv', NEW p \in Pods, NEW n \in Nodes, ForgetPod(p, n)
    PROVE  Interface!Forget(p) \/ UNCHANGED Interface!vars
<1>1. CASE /\ Known(p) /\ p \in assumedPods
           /\ podStates' = [podStates EXCEPT ![p] = NoState]
           /\ assumedPods' = assumedPods \ {p}
  <2>1. Phase[p] = "Assumed"
    BY <1>1 DEF Phase
  <2> QED BY <1>1, <2>1, Leaves DEF Interface!Forget
<1>2. CASE UNCHANGED <<podStates, assumedPods>>
  BY <1>2, Invisible
<1> QED BY <1>1, <1>2 DEF ForgetPod, Known

\* A visit of the sweep is the interface's Expire or a stutter.
LEMMA CleanupVisitImplements ==
    ASSUME CacheInv, CacheInv', NEW p \in Pods, CleanupVisit(p)
    PROVE  Interface!Expire(p) \/ UNCHANGED Interface!vars
<1>1. p \in assumedPods /\ Known(p)
  BY DEF CleanupVisit, CacheInv, PodInv, AssumedAreKnown
<1>2. CASE /\ podStates[p].bindingFinished
           /\ podStates' = [podStates EXCEPT ![p] = NoState]
           /\ assumedPods' = assumedPods \ {p}
  <2>1. Phase[p] = "Assumed" /\ p \in Expirable
    BY <1>1, <1>2 DEF Phase, Expirable
  <2> QED BY <1>1, <1>2, <2>1, Leaves DEF Interface!Expire, Interface!Forget
<1>3. CASE UNCHANGED <<podStates, assumedPods>>
  BY <1>3, Invisible
<1> QED BY <1>2, <1>3 DEF CleanupVisit

\* AddPod is the interface's Add, confirmed on the assumed node or on another.
LEMMA AddPodImplements ==
    ASSUME CacheInv, CacheInv', NEW p \in Pods, NEW n \in Nodes, AddPod(p, n)
    PROVE  Interface!Add(p, n)
<1>1. podStates \in [Pods -> PodState \cup {NoState}] /\ assumedPods \subseteq Pods
  BY DEF CacheInv, TypeOK
<1>2. podWatch[p] \notin Nodes /\ podWatch' = [podWatch EXCEPT ![p] = n]
  BY WatchAssumption DEF AddPod
<1>3. Known(p) => p \in assumedPods
  BY <1>2 DEF CacheInv, PodInv, WatchMirrored
<1>4. p \in assumedPods => Known(p)
  BY DEF CacheInv, PodInv, AssumedAreKnown
<1>5. /\ assumedPods' = assumedPods \ {p}
      /\ \A q \in Pods \ {p} : podStates'[q] = podStates[q]
  BY <1>1, <1>3, <1>4 DEF AddPod, Known
<1>6. podStates'[p] # NoState /\ podStates'[p].node = n
  <2>1. podWatch'[p] = n
    BY <1>2 DEF CacheInv, TypeOK
  <2> QED BY <2>1 DEF CacheInv, PodInv, WatchMirrored, Known
<1>7. Aggregated' = [Interface!Subtracted(p) EXCEPT ![n] = @ \cup {p}]
  BY <1>5, <1>6, EntersOn
<1>8. Phase[p] \in {"Absent", "Assumed"} /\ Phase' = [Phase EXCEPT ![p] = "Added"]
  BY <1>1, <1>3, <1>5, <1>6 DEF Phase, Known
<1>9. Expirable' = Expirable \ {p}
  BY <1>1, <1>5 DEF Expirable
<1> QED BY <1>7, <1>8, <1>9 DEF Interface!Add

\* RemovePod is the interface's Remove.
LEMMA RemovePodImplements ==
    ASSUME CacheInv, CacheInv', NEW p \in Pods, RemovePod(p)
    PROVE  Interface!Remove(p) \/ UNCHANGED Interface!vars
<1>1. CASE /\ Known(p) /\ p \notin assumedPods
           /\ podStates' = [podStates EXCEPT ![p] = NoState]
  <2>1. Phase[p] = "Added"
    BY <1>1 DEF Phase
  <2>2. assumedPods' = assumedPods \ {p}
    BY <1>1 DEF RemovePod
  <2>3. Expirable \ {p} = Expirable
    BY <1>1 DEF Expirable
  <2> QED BY <1>1, <2>1, <2>2, <2>3, Leaves DEF Interface!Remove
<1>2. CASE UNCHANGED <<podStates, assumedPods>>
  BY <1>2, Invisible
<1> QED BY <1>1, <1>2 DEF RemovePod, Known

\* The passing of a deadline is a stutter of the interface.
LEMMA DeadlinePassesImplements ==
    ASSUME CacheInv, CacheInv', NEW p \in Pods, DeadlinePasses(p)
    PROVE  UNCHANGED Interface!vars
<1> DEFINE new == [podStates[p] EXCEPT !.deadline = "passed"]
<1>1. /\ podStates \in [Pods -> PodState \cup {NoState}]
      /\ podStates[p] \in PodState /\ podStates' = [podStates EXCEPT ![p] = new]
      /\ assumedPods' = assumedPods
  BY DEF CacheInv, TypeOK, DeadlinePasses
<1>2. /\ new \in PodState /\ new.node = podStates[p].node
      /\ new.bindingFinished = podStates[p].bindingFinished
  BY <1>1 DEF PodState, Deadline
<1>3. new # NoState /\ podStates[p] # NoState
  BY <1>1, <1>2, NoStateAssumption
<1> HIDE DEF new
<1>4. \A q \in Pods :
         /\ podStates'[q] = NoState <=> podStates[q] = NoState
         /\ podStates[q] # NoState =>
               /\ podStates'[q].node = podStates[q].node
               /\ podStates'[q].bindingFinished = podStates[q].bindingFinished
  BY <1>1, <1>2, <1>3
<1> QED BY <1>1, <1>4, Invisible

\* Every step is a step of the interface or a stutter.
LEMMA NextImplements ==
    CacheInv /\ CacheInv' /\ [Next]_vars => [Interface!Next]_Interface!vars
<1> SUFFICES ASSUME CacheInv, CacheInv', [Next]_vars
             PROVE  Interface!Next \/ UNCHANGED Interface!vars
  OBVIOUS
<1>1. CASE \E p \in Pods, n \in Nodes : AssumePod(p, n)
  BY <1>1, AssumePodImplements DEF Interface!Next
<1>2. CASE \E p \in Pods, n \in Nodes : FinishBinding(p, n)
  BY <1>2, FinishBindingImplements DEF Interface!Next
<1>3. CASE \E p \in Pods, n \in Nodes : ForgetPod(p, n)
  BY <1>3, ForgetPodImplements DEF Interface!Next
<1>4. CASE \E p \in Pods, n \in Nodes : AddPod(p, n)
  BY <1>4, AddPodImplements DEF Interface!Next
<1>5. CASE \E p \in Pods : RemovePod(p)
  BY <1>5, RemovePodImplements DEF Interface!Next
<1>6. CASE \E p \in Pods : CleanupVisit(p)
  BY <1>6, CleanupVisitImplements DEF Interface!Next
<1>7. CASE \E p \in Pods : DeadlinePasses(p)
  BY <1>7, DeadlinePassesImplements
<1>8. CASE UNCHANGED <<podStates, assumedPods>>
  BY <1>8, Invisible
<1>9. \/ \E p \in Pods, n \in Nodes : \/ AssumePod(p, n) \/ FinishBinding(p, n)
                                      \/ ForgetPod(p, n) \/ AddPod(p, n)
      \/ \E p \in Pods : RemovePod(p) \/ CleanupVisit(p) \/ DeadlinePasses(p)
      \/ UNCHANGED <<podStates, assumedPods>>
  BY DEF Next, Operation, vars, cacheVars, BindSucceeded, UpdatePod, UnassignedPodGone,
     AddNode, UpdateNode, RemoveNode, UpdateSnapshot, CleanupStart
<1> QED BY <1>1, <1>2, <1>3, <1>4, <1>5, <1>6, <1>7, <1>8, <1>9

\* The cache implements the pod state machine its interface documents, with the
\* aggregates that go with it.
THEOREM CacheImplements == Spec => ImplementsInterface
<1>1. Init => Interface!Init
  <2> SUFFICES ASSUME Init PROVE Interface!Init
    OBVIOUS
  <2>1. Phase = [p \in Pods |-> "Absent"]
    BY DEF Init, Phase, Known
  <2>2. Aggregated = [n \in Nodes |-> {}]
    BY DEF Init, Aggregated, Count, CountIn
  <2>3. Expirable = {}
    BY DEF Init, Expirable
  <2> QED BY <2>1, <2>2, <2>3 DEF Interface!Init
<1>2. CacheInv /\ CacheInv' /\ [Next]_vars => [Interface!Next]_Interface!vars
  BY NextImplements
<1> QED BY <1>1, <1>2, CacheInvariant, PTL DEF Spec, ImplementsInterface, Interface!Spec

=============================================================================
