------------------------- MODULE ClusterStateProofs -------------------------
(***************************************************************************)
(* Proofs about ClusterState, for any finite set of pods and any           *)
(* containers, label sets, VPAs, selectors and aggregations.               *)
(***************************************************************************)
EXTENDS ClusterState, FiniteSetTheorems, TLAPS

(***************************************************************************)
(* The inductive invariant.                                                *)
(***************************************************************************)

\* The store st is well linked for VPAs with the selectors sel: an aggregation is in
\* the map under one key, a VPA reads the aggregations of the map that it selects,
\* and one that counts as autoscaled is read.
StoreInv(st, sel) ==
    /\ st \in Store
    /\ \A j, k \in Keys : st.map[j] # None /\ st.map[j] = st.map[k] => j = k
    /\ \A v \in Vpas, k \in Keys :
          st.uses[v][k] = IF Selects(sel[v], k[2]) THEN st.map[k] ELSE None
    /\ \A a \in Aggs : st.aggs[a].isUnderVPA =>
          \E v \in Vpas, k \in Keys : st.uses[v][k] = a

\* Containers are in pods, and only a container has a window.
Owned ==
    \A x \in ContainerIDs :
        /\ Exists(x) => PodExists(x[1])
        /\ containers[x].opened => Exists(x)

LinksInv ==
    /\ TypeOK
    /\ StoreInv(store, selector)
    /\ Owned
    /\ NoStrayWrite

NoPeak == [u \in Usages |-> 0]

\* The container x writes into the aggregation a.
WritesTo(x, a) ==
    \/ containers[x].aggregator = a
    \/ containers[x].aggregator = Proxy /\ store.map[Key(x)] = a

\* No aggregation has a peak of a window that was not opened; a proxy that was not
\* moved finds the aggregation that its window began on, and only there is its peak.
WindowOK(x) ==
    /\ ~ containers[x].opened => \A a \in Aggs : store.aggs[a].peaks[x] = NoPeak
    /\ containers[x].opened /\ x \notin moved =>
          /\ containers[x].aggregator = Proxy => store.map[Key(x)] # None
          /\ \A a \in Aggs : store.aggs[a].peaks[x] =
                [u \in Usages |-> IF u = containers[x].peak /\ WritesTo(x, a)
                                  THEN 1 ELSE 0]

PeaksInv == \A x \in ContainerIDs : WindowOK(x)

ClusterInv == LinksInv /\ PodCountExact /\ PeaksInv

-----------------------------------------------------------------------------
(* Operators on the store.                                                 *)

\* A selector matches no pod that does not exist; a VPA that does not exist
\* selects nothing.
LEMMA Unselected ==
    ASSUME NEW s, NEW l
    PROVE  ~ Selects(None, l) /\ ~ Selects(s, None)
BY MatchesAssumption, NoneAssumption DEF Selects

\* A new aggregation has its type.
LEMMA NewAggregateType == NewAggregateContainerState \in AggregateContainerState
<1>1. 0 \in Int
  OBVIOUS
<1> QED BY <1>1 DEF NewAggregateContainerState, AggregateContainerState

\* The parts of a store.
LEMMA StoreParts ==
    ASSUME NEW st \in Store
    PROVE  /\ st.map \in [Keys -> Aggs \cup {None}]
           /\ st.uses \in [Vpas -> [Keys -> Aggs \cup {None}]]
           /\ st.aggs \in [Aggs -> AggregateContainerState]
           /\ st = [map |-> st.map, uses |-> st.uses, aggs |-> st.aggs]
BY DEF Store

\* An allocation gives each key without an aggregation a free reference.
LEMMA AllocationParts ==
    ASSUME NEW K \in SUBSET Keys, NEW f \in Allocations(K)
    PROVE  /\ DOMAIN f = {k \in K : store.map[k] = None}
           /\ \A k \in DOMAIN f : /\ k \in Keys /\ f[k] \in Aggs
                                  /\ f[k] \notin Referenced(store, containers)
           /\ \A j, k \in DOMAIN f : f[j] = f[k] => j = k
BY DEF Allocations

\* Making aggregations keeps the store well linked, what is in the map in the map,
\* and the peaks in what is referred to.
LEMMA CreatedOK ==
    ASSUME LinksInv, NEW K \in SUBSET Keys, NEW f \in Allocations(K)
    PROVE  /\ StoreInv(Created(f), selector)
           /\ \A k \in K : Created(f).map[k] \in Aggs
           /\ \A k \in Keys : store.map[k] # None => Created(f).map[k] = store.map[k]
           /\ \A k \in Keys : Created(f).map[k] = store.map[k]
                              \/ Created(f).map[k] \notin Referenced(store, containers)
           /\ \A a \in Aggs : \/ Created(f).aggs[a].peaks = store.aggs[a].peaks
                              \/ /\ a \notin Referenced(store, containers)
                                 /\ Created(f).aggs[a].peaks
                                        = NewAggregateContainerState.peaks
<1> DEFINE c == Created(f)
<1>0. store \in Store /\ StoreInv(store, selector)
  BY DEF LinksInv, TypeOK
<1>1. /\ DOMAIN f = {k \in K : store.map[k] = None}
      /\ \A k \in DOMAIN f : /\ k \in Keys /\ f[k] \in Aggs
                             /\ f[k] \notin Referenced(store, containers)
      /\ \A j, k \in DOMAIN f : f[j] = f[k] => j = k
  BY AllocationParts
<1>2. /\ c.map = [k \in Keys |-> IF k \in DOMAIN f THEN f[k] ELSE store.map[k]]
      /\ c.uses = [v \in Vpas |-> [k \in Keys |->
                  IF /\ k \in DOMAIN f
                     /\ store.uses[v][k] = None
                     /\ Selects(selector[v], k[2])
                  THEN f[k] ELSE store.uses[v][k]]]
      /\ c.aggs = [a \in Aggs |->
                  IF \E k \in DOMAIN f : f[k] = a
                  THEN [NewAggregateContainerState EXCEPT !.isUnderVPA =
                           \E k \in DOMAIN f, v \in Vpas :
                               /\ f[k] = a
                               /\ store.uses[v][k] = None
                               /\ Selects(selector[v], k[2])]
                  ELSE store.aggs[a]]
      /\ c = [map |-> c.map, uses |-> c.uses, aggs |-> c.aggs]
  BY DEF Created
<1>3. /\ store.map \in [Keys -> Aggs \cup {None}]
      /\ store.uses \in [Vpas -> [Keys -> Aggs \cup {None}]]
      /\ store.aggs \in [Aggs -> AggregateContainerState]
  BY <1>0, StoreParts
<1>4. c \in Store
  <2>1. c.map \in [Keys -> Aggs \cup {None}]
    BY <1>1, <1>2, <1>3
  <2>2. c.uses \in [Vpas -> [Keys -> Aggs \cup {None}]]
    BY <1>1, <1>2, <1>3
  <2>3. c.aggs \in [Aggs -> AggregateContainerState]
    <3> SUFFICES ASSUME NEW a \in Aggs
                 PROVE  (IF \E k \in DOMAIN f : f[k] = a
                         THEN [NewAggregateContainerState EXCEPT !.isUnderVPA =
                                 \E k \in DOMAIN f, v \in Vpas :
                                     /\ f[k] = a
                                     /\ store.uses[v][k] = None
                                     /\ Selects(selector[v], k[2])]
                         ELSE store.aggs[a]) \in AggregateContainerState
      BY <1>2
    <3> DEFINE b == \E k \in DOMAIN f, v \in Vpas :
                                     /\ f[k] = a
                                     /\ store.uses[v][k] = None
                                     /\ Selects(selector[v], k[2])
    <3>1. b \in BOOLEAN
      OBVIOUS
    <3>2. [NewAggregateContainerState EXCEPT !.isUnderVPA = b] \in AggregateContainerState
      <4> HIDE DEF b
      <4> QED BY <3>1, NewAggregateType DEF AggregateContainerState
    <3>3. store.aggs[a] \in AggregateContainerState
      BY <1>3
    <3> QED BY <3>2, <3>3
  <2> QED BY <2>1, <2>2, <2>3, <1>2 DEF Store
<1> HIDE DEF c
<1>5. \A k \in Keys : store.map[k] \in Referenced(store, containers)
  BY DEF Referenced
<1>6. \A j, k \in Keys : c.map[j] # None /\ c.map[j] = c.map[k] => j = k
  BY <1>0, <1>1, <1>2, <1>5 DEF StoreInv
<1>7. \A v \in Vpas, k \in Keys :
        c.uses[v][k] = IF Selects(selector[v], k[2]) THEN c.map[k] ELSE None
  BY <1>0, <1>1, <1>2 DEF StoreInv
<1>8. \A a \in Aggs : c.aggs[a].isUnderVPA =>
        \E v \in Vpas, k \in Keys : c.uses[v][k] = a
  <2> SUFFICES ASSUME NEW a \in Aggs, c.aggs[a].isUnderVPA
               PROVE  \E v \in Vpas, k \in Keys : c.uses[v][k] = a
    OBVIOUS
  <2>1. CASE \E k \in DOMAIN f : f[k] = a
    <3>1. c.aggs[a] = [NewAggregateContainerState EXCEPT !.isUnderVPA =
                           \E k \in DOMAIN f, v \in Vpas :
                               /\ f[k] = a
                               /\ store.uses[v][k] = None
                               /\ Selects(selector[v], k[2])]
      BY <1>2, <2>1
    <3>2. \E k \in DOMAIN f, v \in Vpas :
                               /\ f[k] = a
                               /\ store.uses[v][k] = None
                               /\ Selects(selector[v], k[2])
      BY <3>1 DEF NewAggregateContainerState
    <3> QED BY <3>2, <1>1, <1>2
  <2>2. CASE ~ \E k \in DOMAIN f : f[k] = a
    <3>1. PICK v \in Vpas, k \in Keys : store.uses[v][k] = a
      BY <2>2, <1>0, <1>2 DEF StoreInv
    <3>2. a # None
      BY NoneAssumption
    <3>3. c.uses[v][k] = a
      BY <3>1, <3>2, <1>2
    <3> QED BY <3>3
  <2> QED BY <2>1, <2>2
<1>9. \A k \in K : c.map[k] \in Aggs
  BY <1>1, <1>2, <1>3
<1>10. \A k \in Keys : store.map[k] # None => c.map[k] = store.map[k]
  BY <1>1, <1>2
<1>11. \A k \in Keys : c.map[k] = store.map[k]
                       \/ c.map[k] \notin Referenced(store, containers)
  BY <1>1, <1>2
<1>12. \A a \in Aggs : \/ c.aggs[a].peaks = store.aggs[a].peaks
                       \/ /\ a \notin Referenced(store, containers)
                          /\ c.aggs[a].peaks = NewAggregateContainerState.peaks
  BY <1>1, <1>2 DEF NewAggregateContainerState
<1> QED BY <1>4, <1>6, <1>7, <1>8, <1>9, <1>10, <1>11, <1>12 DEF StoreInv, c

\* Forgetting a window's peaks changes no link.
LEMMA ForgottenOK ==
    ASSUME NEW st, NEW sel, StoreInv(st, sel), NEW X \in SUBSET ContainerIDs
    PROVE  /\ StoreInv(Forgotten(st, X), sel)
           /\ Forgotten(st, X).map = st.map
           /\ Forgotten(st, X).uses = st.uses
           /\ \A a \in Aggs, x \in ContainerIDs :
                 Forgotten(st, X).aggs[a].peaks[x]
                     = IF x \in X THEN [u \in Usages |-> 0] ELSE st.aggs[a].peaks[x]
<1> DEFINE c == Forgotten(st, X)
           none == [u \in Usages |-> 0]
           P(a) == [x \in ContainerIDs |-> IF x \in X THEN none ELSE st.aggs[a].peaks[x]]
<1>0. st \in Store
  BY DEF StoreInv
<1>1. /\ c.map = st.map /\ c.uses = st.uses
      /\ c.aggs = [a \in Aggs |-> [st.aggs[a] EXCEPT !.peaks = P(a)]]
      /\ c = [map |-> c.map, uses |-> c.uses, aggs |-> c.aggs]
  <2> DEFINE E == [a \in Aggs |-> [st.aggs[a] EXCEPT !.peaks = P(a)]]
  <2>1. c = [st EXCEPT !.aggs = E]
    BY DEF Forgotten
  <2> HIDE DEF E, c
  <2>2. c.map = st.map /\ c.uses = st.uses /\ c.aggs = E
        /\ c = [map |-> c.map, uses |-> c.uses, aggs |-> c.aggs]
    BY <1>0, <2>1, StoreParts
  <2> QED BY <2>2 DEF E
<1>2. \A a \in Aggs : P(a) \in [ContainerIDs -> [Usages -> Int]]
  <2>1. none \in [Usages -> Int]
    OBVIOUS
  <2>2. \A a \in Aggs : st.aggs[a].peaks \in [ContainerIDs -> [Usages -> Int]]
    BY <1>0, StoreParts DEF AggregateContainerState
  <2> HIDE DEF none
  <2> QED BY <2>1, <2>2
<1>3. \A a \in Aggs : st.aggs[a] \in AggregateContainerState
  BY <1>0, StoreParts
<1> HIDE DEF c, P
<1>4. \A a \in Aggs : /\ c.aggs[a] \in AggregateContainerState
                      /\ c.aggs[a].isUnderVPA = st.aggs[a].isUnderVPA
                      /\ c.aggs[a].peaks = P(a)
  BY <1>1, <1>2, <1>3 DEF AggregateContainerState
<1>5. c \in Store
  BY <1>0, <1>1, <1>4, StoreParts DEF Store
<1>6. StoreInv(c, sel)
  <2>1. /\ \A j, k \in Keys : c.map[j] # None /\ c.map[j] = c.map[k] => j = k
        /\ \A v \in Vpas, k \in Keys :
              c.uses[v][k] = IF Selects(sel[v], k[2]) THEN c.map[k] ELSE None
    BY <1>1 DEF StoreInv
  <2>2. \A a \in Aggs : c.aggs[a].isUnderVPA =>
            \E v \in Vpas, k \in Keys : c.uses[v][k] = a
    <3>1. c.uses = st.uses
      BY <1>1
    <3>2. \A a \in Aggs : c.aggs[a].isUnderVPA = st.aggs[a].isUnderVPA
      BY <1>4
    <3> QED BY <3>1, <3>2 DEF StoreInv
  <2> QED BY <2>1, <2>2, <1>5 DEF StoreInv
<1> QED BY <1>1, <1>4, <1>6 DEF c, P

\* Reclaiming changes no link and only resets what nothing refers to.
LEMMA ReclaimedOK ==
    ASSUME NEW st, NEW sel, StoreInv(st, sel), NEW cs
    PROVE  /\ StoreInv(Reclaimed(st, cs), sel)
           /\ Reclaimed(st, cs).map = st.map
           /\ Reclaimed(st, cs).uses = st.uses
           /\ \A a \in Aggs : \/ Reclaimed(st, cs).aggs[a] = st.aggs[a]
                              \/ /\ a \notin Referenced(st, cs)
                                 /\ Reclaimed(st, cs).aggs[a] = NewAggregateContainerState
<1> DEFINE c == Reclaimed(st, cs)
<1>0. st \in Store
  BY DEF StoreInv
<1>1. /\ c.map = st.map /\ c.uses = st.uses
      /\ c.aggs = [a \in Aggs |-> IF a \in Referenced(st, cs) THEN st.aggs[a]
                                  ELSE NewAggregateContainerState]
      /\ c = [map |-> c.map, uses |-> c.uses, aggs |-> c.aggs]
  BY <1>0, StoreParts DEF Reclaimed
<1> HIDE DEF c
<1>2. c \in Store
  BY <1>0, <1>1, StoreParts, NewAggregateType DEF Store
<1>3. ~ NewAggregateContainerState.isUnderVPA
  BY DEF NewAggregateContainerState
<1>4. StoreInv(c, sel)
  BY <1>1, <1>2, <1>3 DEF StoreInv
<1> QED BY <1>1, <1>4 DEF c

\* A change of what is in the aggregations changes no link.
LEMMA ContentOK ==
    ASSUME NEW st, NEW sel, StoreInv(st, sel),
           NEW E \in [Aggs -> AggregateContainerState],
           \A a \in Aggs : E[a].isUnderVPA = st.aggs[a].isUnderVPA
    PROVE  /\ StoreInv([st EXCEPT !.aggs = E], sel)
           /\ [st EXCEPT !.aggs = E].map = st.map
           /\ [st EXCEPT !.aggs = E].uses = st.uses
           /\ [st EXCEPT !.aggs = E].aggs = E
<1> DEFINE c == [st EXCEPT !.aggs = E]
<1>0. st \in Store
  BY DEF StoreInv
<1>1. /\ c.map = st.map /\ c.uses = st.uses /\ c.aggs = E
      /\ c = [map |-> c.map, uses |-> c.uses, aggs |-> c.aggs]
  BY <1>0, StoreParts
<1> HIDE DEF c
<1>2. c \in Store
  BY <1>0, <1>1, StoreParts DEF Store
<1>3. \A a \in Aggs : c.aggs[a].isUnderVPA =>
        \E v \in Vpas, k \in Keys : c.uses[v][k] = a
  <2>1. c.uses = st.uses /\ c.aggs = E
    BY <1>1
  <2> QED BY <2>1 DEF StoreInv
<1>4. StoreInv(c, sel)
  BY <1>1, <1>2, <1>3 DEF StoreInv
<1> QED BY <1>1, <1>4 DEF c

\* What MarkNotAutoscaled changes.
LEMMA NotAutoscaledOK ==
    ASSUME NEW st \in Store, NEW A
    PROVE  /\ NotAutoscaled(st, A) \in Store
           /\ NotAutoscaled(st, A).map = st.map
           /\ NotAutoscaled(st, A).uses = st.uses
           /\ \A a \in Aggs :
                 /\ NotAutoscaled(st, A).aggs[a].peaks = st.aggs[a].peaks
                 /\ NotAutoscaled(st, A).aggs[a].isUnderVPA =>
                        a \notin A /\ st.aggs[a].isUnderVPA
<1> DEFINE E == [a \in Aggs |->
        IF a \in A THEN [st.aggs[a] EXCEPT !.isUnderVPA = FALSE] ELSE st.aggs[a]]
           c == NotAutoscaled(st, A)
<1>1. c = [st EXCEPT !.aggs = E]
  BY DEF NotAutoscaled
<1>2. \A a \in Aggs : /\ E[a] \in AggregateContainerState
                      /\ E[a].peaks = st.aggs[a].peaks
                      /\ E[a].isUnderVPA => a \notin A /\ st.aggs[a].isUnderVPA
  <2> SUFFICES ASSUME NEW a \in Aggs
               PROVE  /\ E[a] \in AggregateContainerState
                      /\ E[a].peaks = st.aggs[a].peaks
                      /\ E[a].isUnderVPA => a \notin A /\ st.aggs[a].isUnderVPA
    OBVIOUS
  <2>1. st.aggs[a] \in AggregateContainerState
    BY StoreParts
  <2> QED BY <2>1 DEF AggregateContainerState
<1>3. E \in [Aggs -> AggregateContainerState]
  <2>1. E = [a \in Aggs |-> E[a]]
    OBVIOUS
  <2> HIDE DEF E
  <2> QED BY <2>1, <1>2
<1> HIDE DEF E, c
<1>4. /\ c.map = st.map /\ c.uses = st.uses /\ c.aggs = E
      /\ c = [map |-> c.map, uses |-> c.uses, aggs |-> c.aggs]
  BY <1>1, StoreParts
<1>5. c \in Store
  BY <1>3, <1>4, StoreParts DEF Store
<1> QED BY <1>2, <1>4, <1>5 DEF c

\* Deleting a VPA leaves the others linked.
LEMMA UnlinkedOK ==
    ASSUME LinksInv, NEW v \in Vpas
    PROVE  /\ StoreInv(Unlinked(v), [selector EXCEPT ![v] = None])
           /\ Unlinked(v).map = store.map
           /\ \A a \in Aggs : Unlinked(v).aggs[a].peaks = store.aggs[a].peaks
<1> DEFINE n == NotAutoscaled(store, Used(v))
           c == Unlinked(v)
           sel == [selector EXCEPT ![v] = None]
           none == [k \in Keys |-> None]
<1>0. store \in Store /\ StoreInv(store, selector)
      /\ selector \in [Vpas -> Selectors \cup {None}]
  BY DEF LinksInv, TypeOK
<1>1. /\ n \in Store /\ n.map = store.map /\ n.uses = store.uses
      /\ \A a \in Aggs : /\ n.aggs[a].peaks = store.aggs[a].peaks
                         /\ n.aggs[a].isUnderVPA => a \notin Used(v) /\ store.aggs[a].isUnderVPA
  BY <1>0, NotAutoscaledOK
<1>2. c = [n EXCEPT !.uses = [n.uses EXCEPT ![v] = none]]
  BY DEF Unlinked
<1> HIDE DEF n, c
<1>3. /\ c.map = store.map /\ c.uses = [store.uses EXCEPT ![v] = none]
      /\ c.aggs = n.aggs
      /\ c = [map |-> c.map, uses |-> c.uses, aggs |-> c.aggs]
  <2> DEFINE V == [n.uses EXCEPT ![v] = none]
  <2>1. c = [n EXCEPT !.uses = V]
    BY <1>2
  <2> HIDE DEF V
  <2>2. /\ c.map = n.map /\ c.uses = V /\ c.aggs = n.aggs
        /\ c = [map |-> c.map, uses |-> c.uses, aggs |-> c.aggs]
    BY <1>1, <2>1, StoreParts
  <2> QED BY <1>1, <2>2 DEF V
<1>4. none \in [Keys -> Aggs \cup {None}]
  OBVIOUS
<1>5. store.uses \in [Vpas -> [Keys -> Aggs \cup {None}]]
  BY <1>0, StoreParts
<1>6. c \in Store
  <2>1. c.uses \in [Vpas -> [Keys -> Aggs \cup {None}]]
    BY <1>3, <1>4, <1>5
  <2> QED BY <2>1, <1>0, <1>1, <1>3, StoreParts DEF Store
<1>7. \A w \in Vpas, k \in Keys :
        c.uses[w][k] = IF Selects(sel[w], k[2]) THEN c.map[k] ELSE None
  <2> SUFFICES ASSUME NEW w \in Vpas, NEW k \in Keys
               PROVE  c.uses[w][k] = IF Selects(sel[w], k[2]) THEN c.map[k] ELSE None
    OBVIOUS
  <2>1. CASE w = v
    <3>1. c.uses[w][k] = None
      BY <2>1, <1>3, <1>5
    <3>2. sel[w] = None
      BY <2>1, <1>0
    <3> QED BY <3>1, <3>2, Unselected
  <2>2. CASE w # v
    <3>1. c.uses[w] = store.uses[w] /\ sel[w] = selector[w] /\ c.map = store.map
      BY <2>2, <1>0, <1>3, <1>5
    <3> QED BY <3>1, <1>0 DEF StoreInv
  <2> QED BY <2>1, <2>2
<1>8. \A a \in Aggs : c.aggs[a].isUnderVPA =>
        \E w \in Vpas, k \in Keys : c.uses[w][k] = a
  <2> SUFFICES ASSUME NEW a \in Aggs, c.aggs[a].isUnderVPA
               PROVE  \E w \in Vpas, k \in Keys : c.uses[w][k] = a
    OBVIOUS
  <2>1. a \notin Used(v) /\ store.aggs[a].isUnderVPA
    BY <1>1, <1>3
  <2>2. PICK w \in Vpas, k \in Keys : store.uses[w][k] = a
    BY <2>1, <1>0 DEF StoreInv
  <2>3. w # v
    BY <2>1, <2>2, NoneAssumption DEF Used
  <2>4. c.uses[w][k] = a
    BY <2>2, <2>3, <1>3, <1>5
  <2> QED BY <2>4
<1>9. StoreInv(c, sel)
  BY <1>0, <1>3, <1>6, <1>7, <1>8 DEF StoreInv
<1> QED BY <1>1, <1>3, <1>9 DEF c

\* A new VPA is linked to all that it selects.
LEMMA LinkedOK ==
    ASSUME NEW st, NEW sel \in [Vpas -> Selectors \cup {None}], StoreInv(st, sel),
           NEW v \in Vpas, NEW s \in Selectors, sel[v] = None
    PROVE  /\ StoreInv(Linked(st, v, s), [sel EXCEPT ![v] = s])
           /\ Linked(st, v, s).map = st.map
           /\ \A a \in Aggs : Linked(st, v, s).aggs[a].peaks = st.aggs[a].peaks
<1> DEFINE K == {k \in Keys : st.map[k] # None /\ Selects(s, k[2])}
           U == [k \in Keys |-> IF k \in K THEN st.map[k] ELSE None]
           E == [a \in Aggs |->
                       IF \E k \in K : st.map[k] = a
                       THEN [st.aggs[a] EXCEPT !.isUnderVPA = TRUE]
                       ELSE st.aggs[a]]
           c == Linked(st, v, s)
           sel2 == [sel EXCEPT ![v] = s]
<1>0. st \in Store
  BY DEF StoreInv
<1>1. c = [map |-> st.map, uses |-> [st.uses EXCEPT ![v] = U], aggs |-> E]
  BY DEF Linked
<1>2. \A a \in Aggs : /\ E[a] \in AggregateContainerState
                      /\ E[a].peaks = st.aggs[a].peaks
                      /\ E[a].isUnderVPA =>
                            st.aggs[a].isUnderVPA \/ \E k \in K : st.map[k] = a
  <2> SUFFICES ASSUME NEW a \in Aggs
               PROVE  /\ E[a] \in AggregateContainerState
                      /\ E[a].peaks = st.aggs[a].peaks
                      /\ E[a].isUnderVPA =>
                            st.aggs[a].isUnderVPA \/ \E k \in K : st.map[k] = a
    OBVIOUS
  <2>1. st.aggs[a] \in AggregateContainerState
    BY <1>0, StoreParts
  <2> QED BY <2>1 DEF AggregateContainerState
<1>3. E \in [Aggs -> AggregateContainerState]
  <2>1. E = [a \in Aggs |-> E[a]]
    OBVIOUS
  <2> HIDE DEF E
  <2> QED BY <2>1, <1>2
<1>4. /\ st.map \in [Keys -> Aggs \cup {None}]
      /\ st.uses \in [Vpas -> [Keys -> Aggs \cup {None}]]
  BY <1>0, StoreParts
<1>5. U \in [Keys -> Aggs \cup {None}]
  BY <1>4
<1> HIDE DEF E, c
<1>6. /\ c.map = st.map /\ c.uses = [st.uses EXCEPT ![v] = U] /\ c.aggs = E
      /\ c = [map |-> c.map, uses |-> c.uses, aggs |-> c.aggs]
  BY <1>1
<1>7. c \in Store
  <2>1. c.uses \in [Vpas -> [Keys -> Aggs \cup {None}]]
    <3> HIDE DEF U
    <3> QED BY <1>4, <1>5, <1>6
  <2> QED BY <2>1, <1>3, <1>4, <1>6 DEF Store
<1>8. \A w \in Vpas, k \in Keys :
        c.uses[w][k] = IF Selects(sel2[w], k[2]) THEN c.map[k] ELSE None
  BY <1>4, <1>6 DEF StoreInv
<1>9. \A a \in Aggs : c.aggs[a].isUnderVPA =>
        \E w \in Vpas, k \in Keys : c.uses[w][k] = a
  <2> SUFFICES ASSUME NEW a \in Aggs, c.aggs[a].isUnderVPA
               PROVE  \E w \in Vpas, k \in Keys : c.uses[w][k] = a
    OBVIOUS
  <2>1. CASE \E k \in K : st.map[k] = a
    BY <2>1, <1>4, <1>6
  <2>2. CASE st.aggs[a].isUnderVPA
    <3>1. PICK w \in Vpas, k \in Keys : st.uses[w][k] = a
      BY <2>2 DEF StoreInv
    <3>2. w # v
      BY <3>1, Unselected, NoneAssumption DEF StoreInv
    <3>3. c.uses[w][k] = a
      BY <3>1, <3>2, <1>4, <1>6
    <3> QED BY <3>3
  <2>3. \/ st.aggs[a].isUnderVPA
        \/ \E k \in K : st.map[k] = a
    BY <1>2, <1>6
  <2> QED BY <2>1, <2>2, <2>3
<1>10. StoreInv(c, sel2)
  <2>1. \A j, k \in Keys : c.map[j] # None /\ c.map[j] = c.map[k] => j = k
    BY <1>6 DEF StoreInv
  <2> QED BY <2>1, <1>7, <1>8, <1>9 DEF StoreInv
<1> QED BY <1>2, <1>6, <1>10 DEF c

-----------------------------------------------------------------------------
(* The count of a VPA's pods.                                              *)

\* The number of the pods ps that s matches.
Count(s, ps) == Cardinality({r \in Pods : Selects(s, ps[r].labels)})

\* The pod p changes to q.
LEMMA PodChange ==
    ASSUME NEW s, pods \in [Pods -> PodState], NEW p \in Pods, NEW q \in PodState
    PROVE  Count(s, [pods EXCEPT ![p] = q]) =
               Count(s, pods) - (IF Selects(s, pods[p].labels) THEN 1 ELSE 0)
                              + (IF Selects(s, q.labels) THEN 1 ELSE 0)
<1> DEFINE D == {r \in Pods \ {p} : Selects(s, pods[r].labels)}
           A == {r \in Pods : Selects(s, pods[r].labels)}
           B == {r \in Pods : Selects(s, [pods EXCEPT ![p] = q][r].labels)}
<1>1. IsFiniteSet(D)
  BY PodsAssumption, FS_Subset
<1>2. /\ Cardinality(D) \in Nat
      /\ Cardinality(D \cup {p}) = Cardinality(D) + 1
  BY <1>1, FS_AddElement, FS_CardinalityType
<1>3. A = IF Selects(s, pods[p].labels) THEN D \cup {p} ELSE D
  OBVIOUS
<1>4. B = IF Selects(s, q.labels) THEN D \cup {p} ELSE D
  OBVIOUS
<1>5. Cardinality(B) = Cardinality(A) - (IF Selects(s, pods[p].labels) THEN 1 ELSE 0)
                           + (IF Selects(s, q.labels) THEN 1 ELSE 0)
  <2> HIDE DEF A, B, D
  <2> QED BY <1>2, <1>3, <1>4
<1> QED BY <1>5 DEF Count

\* What PodCountExact needs of the types.
CountInv ==
    /\ pods \in [Pods -> PodState]
    /\ selector \in [Vpas -> Selectors \cup {None}]
    /\ podCount \in [Vpas -> Int]
    /\ PodCountExact

\* Removing a pod from its VPA and adding it to that of its new labels.
LEMMA RecountedOK ==
    ASSUME CountInv, NEW p \in Pods, NEW q \in PodState,
           pods' = [pods EXCEPT ![p] = q], UNCHANGED selector,
           podCount' = Recounted(pods[p].labels, q.labels)
    PROVE  CountInv'
<1>1. pods' \in [Pods -> PodState] /\ selector' \in [Vpas -> Selectors \cup {None}]
  BY DEF CountInv
<1>2. podCount' \in [Vpas -> Int]
  BY DEF CountInv, Recounted
<1>3. ASSUME NEW v \in Vpas, selector'[v] # None
      PROVE  podCount'[v] = Count(selector[v], pods')
  <2>1. podCount'[v] = podCount[v]
            - (IF Selects(selector[v], pods[p].labels) THEN 1 ELSE 0)
            + (IF Selects(selector[v], q.labels) THEN 1 ELSE 0)
    BY DEF Recounted
  <2>2. podCount[v] = Count(selector[v], pods)
    BY <1>3 DEF CountInv, PodCountExact, Count
  <2>3. Count(selector[v], [pods EXCEPT ![p] = q]) = Count(selector[v], pods)
            - (IF Selects(selector[v], pods[p].labels) THEN 1 ELSE 0)
            + (IF Selects(selector[v], q.labels) THEN 1 ELSE 0)
    BY PodChange DEF CountInv
  <2> QED BY <2>1, <2>2, <2>3
<1> QED BY <1>1, <1>2, <1>3 DEF CountInv, PodCountExact, Count

\* Every step keeps the count.
LEMMA CountStep == CountInv /\ [Next]_vars => CountInv'
<1> SUFFICES ASSUME CountInv, [Next]_vars PROVE CountInv'
  OBVIOUS
<1>0. ASSUME UNCHANGED <<pods, selector, podCount>> PROVE CountInv'
  BY <1>0 DEF CountInv, PodCountExact
<1>1. ASSUME NEW p \in Pods, NEW l \in LabelSets, NEW running \in BOOLEAN,
             AddOrUpdatePod(p, l, running)
      PROVE  CountInv'
  <2> DEFINE q == [labels |-> l, running |-> running]
  <2>1. q \in PodState /\ q.labels = l
    BY DEF PodState
  <2>2. pods' = [pods EXCEPT ![p] = q] /\ UNCHANGED selector
    BY <1>1 DEF AddOrUpdatePod
  <2>3. CASE pods[p].labels = l
    <3>1. \A v \in Vpas : podCount[v] \in Int
      BY DEF CountInv
    <3>2. Recounted(l, l) = [v \in Vpas |-> podCount[v]]
      BY <3>1 DEF Recounted
    <3>3. podCount' = Recounted(l, l)
      BY <1>1, <2>3, <3>2 DEF AddOrUpdatePod, CountInv
    <3> QED BY <2>1, <2>2, <2>3, <3>3, RecountedOK
  <2>4. CASE pods[p].labels # l
    <3>1. podCount' = Recounted(pods[p].labels, l)
      BY <1>1, <2>4 DEF AddOrUpdatePod
    <3> QED BY <2>1, <2>2, <3>1, RecountedOK
  <2> QED BY <2>3, <2>4
<1>2. ASSUME NEW p \in Pods, DeletePod(p) PROVE CountInv'
  <2>1. NoPod \in PodState /\ NoPod.labels = None
    BY DEF NoPod, PodState
  <2>2. /\ pods' = [pods EXCEPT ![p] = NoPod] /\ UNCHANGED selector
        /\ podCount' = Recounted(pods[p].labels, None)
    BY <1>2 DEF DeletePod
  <2> QED BY <2>1, <2>2, RecountedOK
<1>3. ASSUME NEW v \in Vpas, NEW s \in Selectors, AddOrUpdateVpa(v, s) PROVE CountInv'
  <2> DEFINE n == Cardinality({p \in Pods : Selects(s, pods[p].labels)})
  <2>1. /\ selector' = [selector EXCEPT ![v] = s]
        /\ podCount' = [podCount EXCEPT ![v] = n]
        /\ pods' = pods
    BY <1>3 DEF AddOrUpdateVpa
  <2>2. n \in Nat
    BY PodsAssumption, FS_Subset, FS_CardinalityType
  <2>3. /\ pods' \in [Pods -> PodState] /\ selector' \in [Vpas -> Selectors \cup {None}]
        /\ podCount' \in [Vpas -> Int]
    <3> HIDE DEF n
    <3> QED BY <2>1, <2>2 DEF CountInv
  <2>4. PodCountExact'
    BY <2>1 DEF CountInv, PodCountExact
  <2> QED BY <2>3, <2>4 DEF CountInv
<1>4. ASSUME NEW v \in Vpas, DeleteVpa(v) PROVE CountInv'
  <2>1. /\ selector' = [selector EXCEPT ![v] = None]
        /\ podCount' = [podCount EXCEPT ![v] = 0]
        /\ pods' = pods
    BY <1>4 DEF DeleteVpa
  <2> QED BY <2>1 DEF CountInv, PodCountExact
<1>5. CASE UNCHANGED vars
  BY <1>0, <1>5 DEF vars
<1>6. ASSUME NEW x \in ContainerIDs, AddOrUpdateContainer(x) \/ AddCPUSample(x)
      PROVE  CountInv'
  BY <1>0, <1>6 DEF AddOrUpdateContainer, AddCPUSample
<1>7. ASSUME NEW x, NEW usage,
             AddMemorySample(x, usage) \/ AddMemorySampleInNewWindow(x, usage)
      PROVE  CountInv'
  BY <1>0, <1>7 DEF AddMemorySample, AddMemorySampleInNewWindow
<1>8. CASE GarbageCollectAggregateCollectionStates
  BY <1>0, <1>8 DEF GarbageCollectAggregateCollectionStates
<1>9. ASSUME NEW k \in Keys, Expire(k) PROVE CountInv'
  BY <1>0, <1>9 DEF Expire
<1> QED BY <1>1, <1>2, <1>3, <1>4, <1>5, <1>6, <1>7, <1>8, <1>9 DEF Next

\* The count that a VPA keeps of its pods is the number of pods its selector
\* matches, over any sequence of label changes, deletions and selector changes.
THEOREM PodCountTheorem == Spec => []PodCountExact
<1>1. Init => CountInv
  BY DEF Init, CountInv, PodCountExact, NoPod, PodState
<1>2. CountInv => PodCountExact
  BY DEF CountInv
<1> QED BY <1>1, <1>2, CountStep, PTL DEF Spec

-----------------------------------------------------------------------------
(* The links and the peaks.                                                *)

\* The key of a container in a pod that exists.
LEMMA KeyType ==
    ASSUME TypeOK, NEW x \in ContainerIDs, PodExists(x[1])
    PROVE  Key(x) \in Keys
BY DEF TypeOK, ContainerIDs, PodExists, PodState, Key, Keys

\* A container that a step leaves alone keeps its window, if the step only clears
\* aggregations that nothing refers to, before or after it.
LEMMA WindowKept ==
    ASSUME LinksInv, NEW x \in ContainerIDs, WindowOK(x),
           containers'[x] = containers[x], Key(x)' = Key(x),
           x \in moved => x \in moved',
           containers[x].opened /\ x \notin moved' /\ containers[x].aggregator = Proxy
               => store'.map[Key(x)] = store.map[Key(x)],
           \A a \in Aggs :
               \/ store'.aggs[a].peaks[x] = store.aggs[a].peaks[x]
               \/ /\ store'.aggs[a].peaks[x] = NoPeak
                  /\ \/ a \notin Referenced(store, containers)
                     \/ a \notin Referenced(store', containers')
    PROVE  WindowOK(x)'
<1>1. CASE ~ containers[x].opened
  BY <1>1 DEF WindowOK
<1>2. CASE containers[x].opened /\ x \in moved'
  BY <1>2 DEF WindowOK
<1>3. CASE containers[x].opened /\ x \notin moved'
  <2>1. Key(x) \in Keys
    BY <1>3, KeyType DEF LinksInv, Owned
  <2>2. \A a \in Aggs : WritesTo(x, a)' <=> WritesTo(x, a)
    BY <1>3 DEF WritesTo
  <2>3. \A a \in Aggs : WritesTo(x, a) =>
            a \in Referenced(store, containers) /\ a \in Referenced(store', containers')
    BY <2>1, <1>3 DEF WritesTo, Referenced
  <2>4. ASSUME NEW a \in Aggs
        PROVE  store'.aggs[a].peaks[x] =
                  [u \in Usages |-> IF u = containers'[x].peak /\ WritesTo(x, a)'
                                    THEN 1 ELSE 0]
    <3>1. store.aggs[a].peaks[x] =
                  [u \in Usages |-> IF u = containers[x].peak /\ WritesTo(x, a)
                                    THEN 1 ELSE 0]
      BY <1>3 DEF WindowOK
    <3>2. CASE store'.aggs[a].peaks[x] = store.aggs[a].peaks[x]
      BY <2>2, <3>1, <3>2
    <3>3. CASE store'.aggs[a].peaks[x] = NoPeak /\ ~ WritesTo(x, a)
      BY <2>2, <3>3 DEF NoPeak
    <3> QED BY <2>3, <3>2, <3>3
  <2>5. containers'[x].aggregator = Proxy => store'.map[Key(x)'] # None
    BY <1>3 DEF WindowOK
  <2> QED BY <1>3, <2>4, <2>5 DEF WindowOK
<1> QED BY <1>1, <1>2, <1>3

\* What the invariant says of one container.
ContainerOK(x) ==
    /\ Exists(x) => PodExists(x[1])
    /\ containers[x].opened => Exists(x)
    /\ \A k \in Keys :
          Exists(x) /\ store.map[k] # None /\ containers[x].aggregator = store.map[k]
              => k = Key(x)
    /\ WindowOK(x)

\* A step that only adds to the map, and clears of x's peaks only what nothing
\* refers to.
Grown(x) ==
    /\ \A k \in Keys : store.map[k] # None => store'.map[k] = store.map[k]
    /\ \A k \in Keys : \/ store'.map[k] = store.map[k]
                       \/ store'.map[k] \notin Referenced(store, containers)
    /\ \A a \in Aggs :
          \/ store'.aggs[a].peaks[x] = store.aggs[a].peaks[x]
          \/ /\ store'.aggs[a].peaks[x] = NoPeak
             /\ \/ a \notin Referenced(store, containers)
                \/ a \notin Referenced(store', containers')

\* The invariant of each container in the current state.
LEMMA EachContainer ==
    ASSUME LinksInv, PeaksInv, NEW x \in ContainerIDs
    PROVE  ContainerOK(x)
BY DEF LinksInv, PeaksInv, Owned, NoStrayWrite, ContainerOK

\* The invariant of the next state, from its parts.
LEMMA Assembled ==
    ASSUME CountInv', StoreInv(store, selector)',
           containers' \in [ContainerIDs -> ContainerState], moved' \subseteq ContainerIDs,
           \A x \in ContainerIDs : ContainerOK(x)'
    PROVE  LinksInv' /\ PeaksInv'
<1>1. TypeOK'
  BY DEF CountInv, StoreInv, TypeOK
<1>2. Owned' /\ NoStrayWrite' /\ PeaksInv'
  BY DEF ContainerOK, Owned, NoStrayWrite, PeaksInv
<1> QED BY <1>1, <1>2 DEF LinksInv

\* A container that a step leaves alone.
LEMMA Bystander ==
    ASSUME LinksInv, PeaksInv, NEW x \in ContainerIDs,
           containers'[x] = containers[x], pods'[x[1]].labels = pods[x[1]].labels,
           x \in moved => x \in moved', Grown(x)
    PROVE  ContainerOK(x)'
<1>1. ContainerOK(x)
  BY EachContainer
<1>2. Key(x)' = Key(x) /\ Exists(x)' = Exists(x) /\ PodExists(x[1])' = PodExists(x[1])
  BY DEF Key, Exists, PodExists
<1>3. containers[x].aggregator \in Referenced(store, containers)
  BY DEF Referenced
<1>4. ASSUME NEW k \in Keys, Exists(x)', store'.map[k] # None,
             containers'[x].aggregator = store'.map[k]
      PROVE  k = Key(x)'
  <2>1. store'.map[k] = store.map[k]
    BY <1>3, <1>4 DEF Grown
  <2> QED BY <1>1, <1>2, <1>4, <2>1 DEF ContainerOK
<1>5. WindowOK(x)'
  <2>1. ASSUME containers[x].opened, x \notin moved', containers[x].aggregator = Proxy
        PROVE  store'.map[Key(x)] = store.map[Key(x)]
    <3>1. Key(x) \in Keys
      BY <1>1, <2>1, KeyType DEF ContainerOK, LinksInv
    <3>2. store.map[Key(x)] # None
      BY <1>1, <2>1 DEF ContainerOK, WindowOK
    <3> QED BY <3>1, <3>2 DEF Grown
  <2>2. WindowOK(x)
    BY <1>1 DEF ContainerOK
  <2> QED BY <1>2, <2>1, <2>2, WindowKept DEF Grown
<1> QED BY <1>1, <1>2, <1>4, <1>5 DEF ContainerOK

\* Adding a VPA, or changing its selector, keeps links and peaks.
LEMMA AddOrUpdateVpaOK ==
    ASSUME ClusterInv, CountInv', NEW v \in Vpas, NEW s \in Selectors,
           AddOrUpdateVpa(v, s)
    PROVE  LinksInv' /\ PeaksInv'
<1> DEFINE st == IF selector[v] = None THEN store ELSE Unlinked(v)
           sel == [selector EXCEPT ![v] = None]
<1>0. LinksInv /\ TypeOK /\ StoreInv(store, selector)
      /\ selector \in [Vpas -> Selectors \cup {None}] /\ PeaksInv
  BY DEF ClusterInv, LinksInv, TypeOK
<1>1. /\ store' = Linked(st, v, s)
      /\ selector' = [selector EXCEPT ![v] = s]
      /\ UNCHANGED <<pods, containers, moved>>
  BY DEF AddOrUpdateVpa
<1>2. /\ StoreInv(st, sel) /\ st.map = store.map
      /\ \A a \in Aggs : st.aggs[a].peaks = store.aggs[a].peaks
  <2>1. CASE selector[v] = None
    <3>1. sel = selector
      BY <2>1, <1>0
    <3> QED BY <2>1, <3>1, <1>0
  <2>2. CASE selector[v] # None
    BY <2>2, <1>0, UnlinkedOK
  <2> QED BY <2>1, <2>2
<1>3. /\ sel \in [Vpas -> Selectors \cup {None}] /\ sel[v] = None
      /\ selector' = [sel EXCEPT ![v] = s]
  BY <1>0, <1>1
<1> HIDE DEF st, sel
<1>4. /\ StoreInv(store, selector)' /\ store'.map = store.map
      /\ \A a \in Aggs : store'.aggs[a].peaks = store.aggs[a].peaks
  <2>1. /\ StoreInv(Linked(st, v, s), [sel EXCEPT ![v] = s])
        /\ Linked(st, v, s).map = st.map
        /\ \A a \in Aggs : Linked(st, v, s).aggs[a].peaks = st.aggs[a].peaks
    BY <1>2, <1>3, LinkedOK
  <2> QED BY <2>1, <1>1, <1>2, <1>3
<1>5. \A x \in ContainerIDs : ContainerOK(x)'
  BY <1>0, <1>1, <1>4, Bystander DEF Grown
<1> QED BY <1>0, <1>1, <1>4, <1>5, Assembled DEF TypeOK

\* Deleting a VPA keeps links and peaks.
LEMMA DeleteVpaOK ==
    ASSUME ClusterInv, CountInv', NEW v \in Vpas, DeleteVpa(v)
    PROVE  LinksInv' /\ PeaksInv'
<1>0. LinksInv /\ TypeOK /\ PeaksInv
  BY DEF ClusterInv, LinksInv
<1>1. /\ store' = Unlinked(v)
      /\ selector' = [selector EXCEPT ![v] = None]
      /\ UNCHANGED <<pods, containers, moved>>
  BY DEF DeleteVpa
<1>2. /\ StoreInv(store, selector)' /\ store'.map = store.map
      /\ \A a \in Aggs : store'.aggs[a].peaks = store.aggs[a].peaks
  BY <1>0, <1>1, UnlinkedOK
<1>3. \A x \in ContainerIDs : ContainerOK(x)'
  BY <1>0, <1>1, <1>2, Bystander DEF Grown
<1> QED BY <1>0, <1>1, <1>2, <1>3, Assembled DEF TypeOK

\* An aggregation that becomes too old keeps links and peaks.
LEMMA ExpireOK ==
    ASSUME ClusterInv, CountInv', NEW k \in Keys, Expire(k)
    PROVE  LinksInv' /\ PeaksInv'
<1> DEFINE a0 == store.map[k]
           E == [store.aggs EXCEPT ![a0] = [store.aggs[a0] EXCEPT !.age = "expired"]]
<1>0. LinksInv /\ TypeOK /\ PeaksInv /\ StoreInv(store, selector) /\ store \in Store
  BY DEF ClusterInv, LinksInv, TypeOK
<1>1. /\ store' = [store EXCEPT !.aggs = E]
      /\ UNCHANGED <<pods, containers, selector, moved>>
  BY DEF Expire
<1>2. /\ store.aggs \in [Aggs -> AggregateContainerState] /\ a0 \in Aggs
  BY <1>0, StoreParts DEF Expire
<1>3. /\ E \in [Aggs -> AggregateContainerState]
      /\ \A a \in Aggs : /\ E[a].isUnderVPA = store.aggs[a].isUnderVPA
                         /\ E[a].peaks = store.aggs[a].peaks
  <2> HIDE DEF a0
  <2> QED BY <1>2 DEF AggregateContainerState
<1> HIDE DEF E
<1>4. /\ StoreInv(store, selector)' /\ store'.map = store.map /\ store'.aggs = E
  BY <1>0, <1>1, <1>3, ContentOK
<1>5. \A x \in ContainerIDs : ContainerOK(x)'
  BY <1>0, <1>1, <1>3, <1>4, Bystander DEF Grown
<1> QED BY <1>0, <1>1, <1>4, <1>5, Assembled DEF TypeOK

\* No container's peak is in a new aggregation.
LEMMA NewHasNoPeak ==
    ASSUME NEW x \in ContainerIDs
    PROVE  NewAggregateContainerState.peaks[x] = NoPeak
BY DEF NewAggregateContainerState, NoPeak

\* Making aggregations, for every container.
LEMMA CreatedGrows ==
    ASSUME LinksInv, NEW K \in SUBSET Keys, NEW f \in Allocations(K),
           store'.map = Created(f).map, NEW x \in ContainerIDs,
           \A a \in Aggs : store'.aggs[a].peaks[x] = Created(f).aggs[a].peaks[x]
    PROVE  Grown(x)
<1>1. /\ \A k \in Keys : store.map[k] # None => Created(f).map[k] = store.map[k]
      /\ \A k \in Keys : Created(f).map[k] = store.map[k]
                         \/ Created(f).map[k] \notin Referenced(store, containers)
      /\ \A a \in Aggs : \/ Created(f).aggs[a].peaks = store.aggs[a].peaks
                         \/ /\ a \notin Referenced(store, containers)
                            /\ Created(f).aggs[a].peaks = NewAggregateContainerState.peaks
  BY CreatedOK
<1> QED BY <1>1, NewHasNoPeak DEF Grown

\* A new container, whose proxy finds or makes its aggregation.
LEMMA AddOrUpdateContainerOK ==
    ASSUME ClusterInv, CountInv', NEW x \in ContainerIDs, AddOrUpdateContainer(x)
    PROVE  LinksInv' /\ PeaksInv'
<1>0. LinksInv /\ TypeOK /\ PeaksInv
  BY DEF ClusterInv, LinksInv
<1>1. /\ PodExists(x[1]) /\ ~ Exists(x)
      /\ containers' = [containers EXCEPT ![x].aggregator = Proxy]
      /\ UNCHANGED <<pods, selector, moved>>
  BY DEF AddOrUpdateContainer
<1>2. PICK f \in Allocations({Key(x)}) : store' = Created(f)
  BY DEF AddOrUpdateContainer
<1>3. {Key(x)} \in SUBSET Keys
  BY <1>0, <1>1, KeyType
<1>4. StoreInv(store, selector)'
  BY <1>0, <1>1, <1>2, <1>3, CreatedOK
<1>5. /\ containers' \in [ContainerIDs -> ContainerState]
      /\ containers'[x].aggregator = Proxy
      /\ containers'[x].opened = containers[x].opened
      /\ \A y \in ContainerIDs \ {x} : containers'[y] = containers[y]
  BY <1>0, <1>1 DEF TypeOK, ContainerState
<1>6. \A y \in ContainerIDs : Grown(y)
  BY <1>0, <1>2, <1>3, CreatedGrows
<1>7. \A y \in ContainerIDs \ {x} : ContainerOK(y)'
  BY <1>0, <1>1, <1>5, <1>6, Bystander
<1>8. ContainerOK(x)'
  <2>1. ContainerOK(x) /\ ~ containers'[x].opened
    BY <1>0, <1>1, <1>5, EachContainer DEF ContainerOK
  <2>2. \A a \in Aggs : store'.aggs[a].peaks[x] = NoPeak
    BY <1>5, <1>6, <2>1 DEF Grown, ContainerOK, WindowOK
  <2>3. \A k \in Keys : store'.map[k] # Proxy
    <3>1. store'.map \in [Keys -> Aggs \cup {None}]
      BY <1>4, StoreParts DEF StoreInv
    <3> QED BY <3>1, ProxyAssumption
  <2>4. PodExists(x[1])'
    BY <1>1 DEF PodExists
  <2> QED BY <1>5, <2>1, <2>2, <2>3, <2>4 DEF ContainerOK, WindowOK
<1> QED BY <1>0, <1>1, <1>4, <1>5, <1>7, <1>8, Assembled DEF TypeOK

\* The aggregation a sample of x goes to.
LEMMA AggregatorOK ==
    ASSUME LinksInv, PeaksInv, NEW x \in ContainerIDs, Exists(x),
           NEW f \in AggregatorAllocations(x)
    PROVE  /\ StoreInv(Created(f), selector) /\ Created(f).aggs \in [Aggs -> AggregateContainerState]
           /\ Aggregator(x, f) \in Aggs
           /\ containers[x].aggregator = Proxy
                  => Created(f).map[Key(x)] = Aggregator(x, f)
           /\ containers[x].aggregator # Proxy
                  => containers[x].aggregator = Aggregator(x, f)
           /\ \E K \in SUBSET Keys : f \in Allocations(K)
<1> DEFINE K == IF containers[x].aggregator = Proxy THEN {Key(x)} ELSE {}
<1>1. K \in SUBSET Keys /\ f \in Allocations(K)
  BY KeyType DEF LinksInv, Owned, AggregatorAllocations
<1>2. StoreInv(Created(f), selector) /\ \A k \in K : Created(f).map[k] \in Aggs
  BY <1>1, CreatedOK
<1>3. containers[x].aggregator \in Aggs \cup {Proxy}
  BY DEF LinksInv, TypeOK, ContainerState, Exists
<1>4. Created(f).aggs \in [Aggs -> AggregateContainerState]
  BY <1>2, StoreParts DEF StoreInv
<1> QED BY <1>1, <1>2, <1>3, <1>4 DEF Aggregator

\* A CPU sample keeps links and peaks.
LEMMA AddCPUSampleOK ==
    ASSUME ClusterInv, CountInv', NEW x \in ContainerIDs, AddCPUSample(x)
    PROVE  LinksInv' /\ PeaksInv'
<1>0. LinksInv /\ TypeOK /\ PeaksInv
  BY DEF ClusterInv, LinksInv
<1>1. Exists(x) /\ UNCHANGED <<pods, containers, selector, moved>>
  BY DEF AddCPUSample
<1>2. PICK f \in AggregatorAllocations(x) :
          store' = [Created(f) EXCEPT !.aggs[Aggregator(x, f)].age = "recent"]
  BY DEF AddCPUSample
<1> DEFINE c == Created(f)
           a0 == Aggregator(x, f)
           E == [c.aggs EXCEPT ![a0] = [c.aggs[a0] EXCEPT !.age = "recent"]]
<1>3. /\ StoreInv(c, selector) /\ c.aggs \in [Aggs -> AggregateContainerState]
      /\ a0 \in Aggs
      /\ \E K \in SUBSET Keys : f \in Allocations(K)
  BY <1>0, <1>1, AggregatorOK
<1>4. store' = [c EXCEPT !.aggs = E]
  BY <1>2
<1> HIDE DEF c, a0
<1>5. /\ E \in [Aggs -> AggregateContainerState]
      /\ \A a \in Aggs : /\ E[a].isUnderVPA = c.aggs[a].isUnderVPA
                         /\ E[a].peaks = c.aggs[a].peaks
  BY <1>3 DEF AggregateContainerState
<1> HIDE DEF E
<1>6. /\ StoreInv(store', selector) /\ store'.map = c.map /\ store'.aggs = E
  BY <1>3, <1>4, <1>5, ContentOK
<1>7. \A y \in ContainerIDs : Grown(y)
  BY <1>0, <1>3, <1>5, <1>6, CreatedGrows DEF c
<1>8. \A y \in ContainerIDs : ContainerOK(y)'
  BY <1>0, <1>1, <1>7, Bystander
<1> QED BY <1>0, <1>1, <1>6, <1>8, Assembled DEF TypeOK

\* The containers of a deleted pod and their peaks are gone; others keep theirs.
LEMMA DeletePodOK ==
    ASSUME ClusterInv, CountInv', NEW p \in Pods, DeletePod(p)
    PROVE  LinksInv' /\ PeaksInv'
<1> DEFINE X == {p} \X Containers
           st == Forgotten(store, X)
<1>0. LinksInv /\ TypeOK /\ PeaksInv /\ StoreInv(store, selector)
  BY DEF ClusterInv, LinksInv
<1>1. /\ pods' = [pods EXCEPT ![p] = NoPod]
      /\ containers' = [x \in ContainerIDs |->
            IF x \in X THEN NoContainer ELSE containers[x]]
      /\ store' = Reclaimed(st, containers')
      /\ moved' = moved \ X
      /\ UNCHANGED selector
  BY DEF DeletePod
<1>2. X \in SUBSET ContainerIDs /\ \A x \in ContainerIDs : x \in X <=> x[1] = p
  BY DEF ContainerIDs
<1>3. NoContainer \in ContainerState
  BY MaxUsageAssumption DEF NoContainer, ContainerState, Usages
<1> HIDE DEF X, st
<1>4. containers' \in [ContainerIDs -> ContainerState]
  BY <1>0, <1>1, <1>3 DEF TypeOK
<1>5. /\ StoreInv(st, selector) /\ st.map = store.map
      /\ \A a \in Aggs, x \in ContainerIDs :
            st.aggs[a].peaks[x] = IF x \in X THEN NoPeak ELSE store.aggs[a].peaks[x]
  BY <1>0, <1>2, ForgottenOK DEF st, NoPeak
<1>6. /\ StoreInv(store', selector) /\ store'.map = st.map /\ store'.uses = st.uses
      /\ \A a \in Aggs : \/ store'.aggs[a] = st.aggs[a]
                         \/ /\ a \notin Referenced(st, containers')
                            /\ store'.aggs[a] = NewAggregateContainerState
  BY <1>1, <1>5, ReclaimedOK
<1>7. Referenced(st, containers') = Referenced(store', containers')
  BY <1>6 DEF Referenced
<1>8. \A x \in ContainerIDs \ X : Grown(x)
  BY <1>5, <1>6, <1>7, NewHasNoPeak DEF Grown
<1>9. \A x \in ContainerIDs \ X : ContainerOK(x)'
  <2> SUFFICES ASSUME NEW x \in ContainerIDs \ X PROVE ContainerOK(x)'
    OBVIOUS
  <2>1. containers'[x] = containers[x] /\ (x \in moved => x \in moved')
    BY <1>1
  <2>2. pods'[x[1]].labels = pods[x[1]].labels
    BY <1>0, <1>1, <1>2 DEF TypeOK
  <2> QED BY <1>0, <1>8, <2>1, <2>2, Bystander
<1>10. \A x \in X : ContainerOK(x)'
  <2> SUFFICES ASSUME NEW x \in X PROVE ContainerOK(x)'
    OBVIOUS
  <2>1. containers'[x] = NoContainer /\ x \in ContainerIDs
    BY <1>1, <1>2
  <2>2. ~ Exists(x)' /\ ~ containers'[x].opened
    BY <2>1 DEF Exists, NoContainer
  <2>3. \A a \in Aggs : store'.aggs[a].peaks[x] = NoPeak
    BY <1>5, <1>6, <2>1, NewHasNoPeak
  <2> QED BY <2>2, <2>3 DEF ContainerOK, WindowOK
<1>11. moved' \subseteq ContainerIDs
  BY <1>0, <1>1 DEF TypeOK
<1> QED BY <1>1, <1>4, <1>6, <1>9, <1>10, <1>11, Assembled

\* New labels link the pod's containers to the aggregations of their new keys.
LEMMA AddOrUpdatePodOK ==
    ASSUME ClusterInv, CountInv', NEW p \in Pods, NEW l \in LabelSets,
           NEW running \in BOOLEAN, AddOrUpdatePod(p, l, running)
    PROVE  LinksInv' /\ PeaksInv'
<1> DEFINE X == {x \in {p} \X Containers : Exists(x)}
           K == {NewKey(x, l) : x \in X}
<1>0. LinksInv /\ TypeOK /\ PeaksInv /\ StoreInv(store, selector)
  BY DEF ClusterInv, LinksInv
<1>1. /\ pods' = [pods EXCEPT ![p] = [labels |-> l, running |-> running]]
      /\ UNCHANGED selector
  BY DEF AddOrUpdatePod
<1>2. /\ \A x \in ContainerIDs : x[1] # p => pods'[x[1]].labels = pods[x[1]].labels
      /\ \A x \in ContainerIDs : x[1] = p => pods'[x[1]].labels = l
  BY <1>0, <1>1 DEF TypeOK
<1>3. CASE pods[p].labels = l
  <2>1. UNCHANGED <<containers, store, moved>>
    BY <1>3 DEF AddOrUpdatePod
  <2>2. \A x \in ContainerIDs : pods'[x[1]].labels = pods[x[1]].labels
    BY <1>2, <1>3
  <2>3. \A x \in ContainerIDs : Grown(x)
    BY <2>1 DEF Grown
  <2>4. \A x \in ContainerIDs : ContainerOK(x)'
    BY <1>0, <2>1, <2>2, <2>3, Bystander
  <2>5. StoreInv(store, selector)'
    BY <1>0, <1>1, <2>1
  <2> QED BY <1>0, <2>1, <2>4, <2>5, Assembled DEF TypeOK
<1>4. CASE pods[p].labels # l
  <2>1. PICK f \in Allocations(K) :
            /\ containers' = [x \in ContainerIDs |->
                  IF x \in X
                  THEN [containers[x] EXCEPT !.aggregator = Created(f).map[NewKey(x, l)]]
                  ELSE containers[x]]
            /\ store' = Reclaimed(Created(f), containers')
            /\ moved' = moved \cup {x \in X : containers[x].opened}
    BY <1>4 DEF AddOrUpdatePod
  <2>2. /\ X \in SUBSET ContainerIDs /\ K \in SUBSET Keys
        /\ \A x \in ContainerIDs : x \in X <=> x[1] = p /\ Exists(x)
    BY DEF ContainerIDs, NewKey, Keys
  <2> DEFINE st == Created(f)
  <2>3. /\ StoreInv(st, selector)
        /\ \A k \in K : st.map[k] \in Aggs
        /\ \A k \in Keys : store.map[k] # None => st.map[k] = store.map[k]
        /\ \A k \in Keys : st.map[k] = store.map[k]
                           \/ st.map[k] \notin Referenced(store, containers)
        /\ \A a \in Aggs : \/ st.aggs[a].peaks = store.aggs[a].peaks
                           \/ /\ a \notin Referenced(store, containers)
                              /\ st.aggs[a].peaks = NewAggregateContainerState.peaks
    BY <1>0, <2>2, CreatedOK
  <2>4. \A x \in X : NewKey(x, l) \in K
    OBVIOUS
  <2> HIDE DEF X, K, st
  <2>5. /\ StoreInv(store', selector) /\ store'.map = st.map /\ store'.uses = st.uses
        /\ \A a \in Aggs : \/ store'.aggs[a] = st.aggs[a]
                           \/ /\ a \notin Referenced(st, containers')
                              /\ store'.aggs[a] = NewAggregateContainerState
    BY <2>1, <2>3, ReclaimedOK DEF st
  <2>6. Referenced(st, containers') = Referenced(store', containers')
    BY <2>5 DEF Referenced
  <2>7. \A x \in ContainerIDs : Grown(x)
    BY <2>3, <2>5, <2>6, NewHasNoPeak DEF Grown
  <2>8. /\ containers' \in [ContainerIDs -> ContainerState]
        /\ \A x \in X : /\ containers'[x].aggregator = st.map[NewKey(x, l)]
                        /\ containers'[x].opened = containers[x].opened
        /\ \A x \in ContainerIDs \ X : containers'[x] = containers[x]
    BY <1>0, <2>1, <2>2, <2>3, <2>4 DEF TypeOK, ContainerState, st
  <2>9. ASSUME NEW x \in ContainerIDs, x[1] # p PROVE ContainerOK(x)'
    <3>1. containers'[x] = containers[x] /\ (x \in moved => x \in moved')
      BY <2>1, <2>2, <2>8, <2>9
    <3>2. pods'[x[1]].labels = pods[x[1]].labels
      BY <1>2, <2>9
    <3>3. Grown(x)
      BY <2>7
    <3> QED BY <1>0, <3>1, <3>2, <3>3, Bystander
  <2>10. ASSUME NEW x \in ContainerIDs, x[1] = p PROVE ContainerOK(x)'
    <3>1. ContainerOK(x)
      BY <1>0, EachContainer
    <3>2. containers'[x].opened = containers[x].opened
      BY <2>8
    <3>3. WindowOK(x)'
      <4>1. CASE containers[x].opened
        <5>1. x \in moved'
          BY <2>1, <2>2, <2>10, <3>1, <4>1 DEF ContainerOK
        <5> QED BY <3>2, <4>1, <5>1 DEF WindowOK
      <4>2. CASE ~ containers[x].opened
        <5>1. \A a \in Aggs : store'.aggs[a].peaks[x] = NoPeak
          BY <2>7, <3>1, <4>2 DEF ContainerOK, WindowOK, Grown
        <5> QED BY <3>2, <4>2, <5>1 DEF WindowOK
      <4> QED BY <4>1, <4>2
    <3>4. PodExists(x[1])'
      BY <1>2, <2>10, NoneAssumption DEF PodExists
    <3>5. CASE x \in X
      <4>1. /\ containers'[x].aggregator = st.map[NewKey(x, l)]
            /\ st.map[NewKey(x, l)] \in Aggs
            /\ NewKey(x, l) \in Keys
        BY <2>2, <2>3, <2>4, <2>8, <3>5
      <4>2. Key(x)' = NewKey(x, l)
        BY <1>2, <2>10 DEF Key, NewKey
      <4>3. Exists(x)'
        BY <4>1, NoneAssumption DEF Exists
      <4>4. \A k \in Keys :
              store'.map[k] # None /\ containers'[x].aggregator = store'.map[k]
                  => k = Key(x)'
        <5>1. \A j, k \in Keys : st.map[j] # None /\ st.map[j] = st.map[k] => j = k
          BY <2>3 DEF StoreInv
        <5>2. store'.map = st.map
          BY <2>5
        <5> QED BY <4>1, <4>2, <5>1, <5>2
      <4> QED BY <3>3, <3>4, <4>3, <4>4 DEF ContainerOK
    <3>6. CASE x \notin X
      <4>1. ~ Exists(x) /\ containers'[x] = containers[x]
        BY <2>2, <2>8, <2>10, <3>6
      <4>2. ~ Exists(x)' /\ ~ containers'[x].opened
        BY <3>1, <4>1 DEF Exists, ContainerOK
      <4> QED BY <3>3, <4>2 DEF ContainerOK
    <3> QED BY <3>5, <3>6
  <2>11. StoreInv(store, selector)' /\ moved' \subseteq ContainerIDs
    BY <1>0, <1>1, <2>1, <2>2, <2>5 DEF TypeOK
  <2> QED BY <2>8, <2>9, <2>10, <2>11, Assembled
<1> QED BY <1>3, <1>4

\* Collecting aggregations takes them from the map and from the VPAs together.
LEMMA GarbageCollectOK ==
    ASSUME ClusterInv, CountInv', GarbageCollectAggregateCollectionStates
    PROVE  LinksInv' /\ PeaksInv'
<1> DEFINE K == {k \in Keys : Obsolete(k)}
           A == UNION {{store.uses[v][k] : k \in K} : v \in Vpas}
           n == NotAutoscaled(store, A)
           M == [k \in Keys |-> IF k \in K THEN None ELSE store.map[k]]
           U == [v \in Vpas |-> [k \in Keys |-> IF k \in K THEN None ELSE store.uses[v][k]]]
           st == [map |-> M, uses |-> U, aggs |-> n.aggs]
<1>0. LinksInv /\ TypeOK /\ PeaksInv /\ StoreInv(store, selector) /\ store \in Store
  BY DEF ClusterInv, LinksInv, TypeOK
<1>1. /\ store' = Reclaimed(st, containers)
      /\ moved' = moved \cup
              {x \in ContainerIDs : /\ containers[x].aggregator = Proxy
                                    /\ containers[x].opened
                                    /\ Key(x) \in K}
      /\ UNCHANGED <<pods, containers, selector>>
  BY DEF GarbageCollectAggregateCollectionStates
<1>2. /\ n \in Store /\ n.map = store.map /\ n.uses = store.uses
      /\ \A a \in Aggs : /\ n.aggs[a].peaks = store.aggs[a].peaks
                         /\ n.aggs[a].isUnderVPA => a \notin A /\ store.aggs[a].isUnderVPA
  BY <1>0, NotAutoscaledOK
<1>3. \A v \in Vpas, k \in K : store.uses[v][k] \in A
  OBVIOUS
<1>4. K \subseteq Keys
  OBVIOUS
<1> HIDE DEF K, A, n
<1>5. /\ st.map = M /\ st.uses = U /\ st.aggs = n.aggs
      /\ st = [map |-> st.map, uses |-> st.uses, aggs |-> st.aggs]
  OBVIOUS
<1> HIDE DEF st
<1>6. /\ store.map \in [Keys -> Aggs \cup {None}]
      /\ store.uses \in [Vpas -> [Keys -> Aggs \cup {None}]]
  BY <1>0, StoreParts
<1>7. st \in Store
  <2>1. M \in [Keys -> Aggs \cup {None}] /\ U \in [Vpas -> [Keys -> Aggs \cup {None}]]
    BY <1>2, <1>6
  <2> HIDE DEF M, U
  <2> QED BY <2>1, <1>2, <1>5, StoreParts DEF Store
<1>8. StoreInv(st, selector)
  <2>1. \A j, k \in Keys : st.map[j] # None /\ st.map[j] = st.map[k] => j = k
    BY <1>0, <1>2, <1>5 DEF StoreInv
  <2>2. \A v \in Vpas, k \in Keys :
          st.uses[v][k] = IF Selects(selector[v], k[2]) THEN st.map[k] ELSE None
    BY <1>0, <1>2, <1>5 DEF StoreInv
  <2>3. ASSUME NEW a \in Aggs, st.aggs[a].isUnderVPA
        PROVE  \E v \in Vpas, k \in Keys : st.uses[v][k] = a
    <3>1. a \notin A /\ store.aggs[a].isUnderVPA
      BY <1>2, <1>5, <2>3
    <3>2. PICK v \in Vpas, k \in Keys : store.uses[v][k] = a
      BY <1>0, <3>1 DEF StoreInv
    <3>3. st.uses[v][k] = a
      BY <1>2, <1>3, <1>5, <3>1, <3>2
    <3> QED BY <3>3
  <2> QED BY <1>7, <2>1, <2>2, <2>3 DEF StoreInv
<1>9. /\ StoreInv(store', selector) /\ store'.map = st.map /\ store'.uses = st.uses
      /\ \A a \in Aggs : \/ store'.aggs[a] = st.aggs[a]
                         \/ /\ a \notin Referenced(st, containers)
                            /\ store'.aggs[a] = NewAggregateContainerState
  BY <1>1, <1>8, ReclaimedOK
<1>10. Referenced(st, containers) = Referenced(store', containers')
  BY <1>1, <1>9 DEF Referenced
<1>11. ASSUME NEW x \in ContainerIDs PROVE ContainerOK(x)'
  <2>1. ContainerOK(x)
    BY <1>0, EachContainer
  <2>2. /\ containers'[x] = containers[x] /\ Key(x)' = Key(x) /\ Exists(x)' = Exists(x)
        /\ PodExists(x[1])' = PodExists(x[1])
    BY <1>1 DEF Key, Exists, PodExists
  <2>3. \A k \in Keys : store'.map[k] \in {store.map[k], None}
    BY <1>2, <1>5, <1>9
  <2>4. \A k \in Keys :
          Exists(x)' /\ store'.map[k] # None /\ containers'[x].aggregator = store'.map[k]
              => k = Key(x)'
    BY <2>1, <2>2, <2>3 DEF ContainerOK
  <2>5. \A a \in Aggs :
          \/ store'.aggs[a].peaks[x] = store.aggs[a].peaks[x]
          \/ /\ store'.aggs[a].peaks[x] = NoPeak
             /\ a \notin Referenced(store', containers')
    BY <1>2, <1>5, <1>9, <1>10, NewHasNoPeak
  <2>6. WindowOK(x)'
    <3>1. ASSUME containers[x].opened, x \notin moved', containers[x].aggregator = Proxy
          PROVE  store'.map[Key(x)] = store.map[Key(x)]
      <4>1. Key(x) \in Keys
        BY <1>0, <2>1, <3>1, KeyType DEF ContainerOK
      <4>2. Key(x) \notin K
        BY <1>1, <3>1
      <4> QED BY <1>2, <1>5, <1>9, <4>1, <4>2
    <3>2. x \in moved => x \in moved'
      BY <1>1
    <3>3. WindowOK(x)
      BY <2>1 DEF ContainerOK
    <3> QED BY <1>0, <2>2, <2>5, <3>1, <3>2, <3>3, WindowKept
  <2> QED BY <2>1, <2>2, <2>4, <2>6 DEF ContainerOK
<1>12. StoreInv(store, selector)' /\ moved' \subseteq ContainerIDs
       /\ containers' \in [ContainerIDs -> ContainerState]
  BY <1>0, <1>1, <1>9 DEF TypeOK
<1> QED BY <1>11, <1>12, Assembled

\* The store with P for the peaks of the container x in the aggregation a.
WithPeaks(st, a, x, P) ==
    [st EXCEPT !.aggs = [st.aggs EXCEPT ![a] =
        [st.aggs[a] EXCEPT !.peaks = [st.aggs[a].peaks EXCEPT ![x] = P]]]]

\* A change of peaks changes no link.
LEMMA PeaksChanged ==
    ASSUME NEW st, NEW sel, StoreInv(st, sel), NEW a0 \in Aggs, NEW x \in ContainerIDs,
           NEW P \in [Usages -> Int]
    PROVE  /\ StoreInv(WithPeaks(st, a0, x, P), sel)
           /\ WithPeaks(st, a0, x, P).map = st.map
           /\ WithPeaks(st, a0, x, P).aggs[a0].peaks[x] = P
           /\ \A a \in Aggs, y \in ContainerIDs :
                 a # a0 \/ y # x =>
                     WithPeaks(st, a0, x, P).aggs[a].peaks[y] = st.aggs[a].peaks[y]
<1> DEFINE Q == [st.aggs[a0].peaks EXCEPT ![x] = P]
           E == [st.aggs EXCEPT ![a0] = [st.aggs[a0] EXCEPT !.peaks = Q]]
           c == [st EXCEPT !.aggs = E]
<1>1. st \in Store /\ st.aggs \in [Aggs -> AggregateContainerState]
  BY StoreParts DEF StoreInv
<1>2. st.aggs[a0].peaks \in [ContainerIDs -> [Usages -> Int]]
  BY <1>1 DEF AggregateContainerState
<1>3. /\ Q \in [ContainerIDs -> [Usages -> Int]] /\ Q[x] = P
      /\ \A y \in ContainerIDs : y # x => Q[y] = st.aggs[a0].peaks[y]
  BY <1>2
<1> HIDE DEF Q
<1>4. /\ E \in [Aggs -> AggregateContainerState]
      /\ \A a \in Aggs : E[a].isUnderVPA = st.aggs[a].isUnderVPA
      /\ E[a0].peaks = Q
      /\ \A a \in Aggs : a # a0 => E[a] = st.aggs[a]
  BY <1>1, <1>3 DEF AggregateContainerState
<1> HIDE DEF E
<1>5. StoreInv(c, sel) /\ c.map = st.map /\ c.aggs = E
  BY <1>4, ContentOK
<1> HIDE DEF c
<1>6. \A a \in Aggs, y \in ContainerIDs :
          a # a0 \/ y # x => c.aggs[a].peaks[y] = st.aggs[a].peaks[y]
  BY <1>3, <1>4, <1>5
<1>7. c.aggs[a0].peaks[x] = P
  BY <1>3, <1>4, <1>5
<1> QED BY <1>5, <1>6, <1>7 DEF c, E, Q, WithPeaks

\* A container after its sample: it writes to the same aggregation.
LEMMA Writer ==
    ASSUME LinksInv, PeaksInv, NEW x \in ContainerIDs, Exists(x),
           NEW f \in AggregatorAllocations(x), store'.map = Created(f).map,
           containers'[x].aggregator = containers[x].aggregator, UNCHANGED pods
    PROVE  /\ WindowOK(x)' => ContainerOK(x)'
           /\ \A a \in Aggs : WritesTo(x, a)' <=> a = Aggregator(x, f)
           /\ containers'[x].aggregator = Proxy => store'.map[Key(x)'] # None
<1>1. /\ Aggregator(x, f) \in Aggs
      /\ containers[x].aggregator = Proxy => Created(f).map[Key(x)] = Aggregator(x, f)
      /\ containers[x].aggregator # Proxy => containers[x].aggregator = Aggregator(x, f)
  BY AggregatorOK
<1>2. PICK K \in SUBSET Keys : f \in Allocations(K)
  BY AggregatorOK
<1>3. \A k \in Keys : \/ store'.map[k] = store.map[k]
                      \/ store'.map[k] \notin Referenced(store, containers)
  BY <1>2, CreatedOK
<1>4. /\ Key(x)' = Key(x) /\ Exists(x)' = Exists(x)
      /\ PodExists(x[1])' = PodExists(x[1])
  BY DEF Key, Exists, PodExists
<1>5. containers[x].aggregator \in Referenced(store, containers)
  BY DEF Referenced
<1>6. ContainerOK(x)
  BY EachContainer
<1>7. ASSUME NEW k \in Keys, store'.map[k] # None,
             containers'[x].aggregator = store'.map[k]
      PROVE  k = Key(x)'
  BY <1>3, <1>4, <1>5, <1>6, <1>7 DEF ContainerOK
<1>8. ASSUME WindowOK(x)' PROVE ContainerOK(x)'
  BY <1>4, <1>6, <1>7, <1>8 DEF ContainerOK
<1>9. \A a \in Aggs : WritesTo(x, a)' <=> a = Aggregator(x, f)
  <2>1. \A a \in Aggs : WritesTo(x, a)' <=>
            \/ containers[x].aggregator = a
            \/ containers[x].aggregator = Proxy /\ Created(f).map[Key(x)] = a
    BY <1>4 DEF WritesTo
  <2> QED BY <1>1, <2>1, ProxyAssumption
<1>10. containers'[x].aggregator = Proxy => store'.map[Key(x)'] # None
  BY <1>1, <1>4, NoneAssumption
<1> QED BY <1>8, <1>9, <1>10

\* The first sample of a window puts one peak into what the container writes to.
LEMMA NewWindowOK ==
    ASSUME ClusterInv, CountInv', NEW x \in ContainerIDs, NEW usage \in Usages,
           AddMemorySampleInNewWindow(x, usage)
    PROVE  LinksInv' /\ PeaksInv'
<1>0. LinksInv /\ TypeOK /\ PeaksInv
  BY DEF ClusterInv, LinksInv
<1>1. /\ Exists(x)
      /\ containers' = [containers EXCEPT ![x].opened = TRUE, ![x].peak = usage]
      /\ moved' = moved \ {x}
      /\ UNCHANGED <<pods, selector>>
  BY DEF AddMemorySampleInNewWindow
<1>2. PICK f \in AggregatorAllocations(x) :
          store' = [Forgotten(Created(f), {x}) EXCEPT
                       !.aggs[Aggregator(x, f)].peaks[x][usage] = @ + 1]
  BY DEF AddMemorySampleInNewWindow
<1> DEFINE a0 == Aggregator(x, f)
           n == Forgotten(Created(f), {x})
           P == [n.aggs[a0].peaks[x] EXCEPT ![usage] = @ + 1]
<1>3. store' = WithPeaks(n, a0, x, P)
  BY <1>2 DEF WithPeaks
<1>4. a0 \in Aggs /\ StoreInv(Created(f), selector)
      /\ \E K \in SUBSET Keys : f \in Allocations(K)
  BY <1>0, <1>1, AggregatorOK
<1>5. /\ StoreInv(n, selector) /\ n.map = Created(f).map
      /\ \A a \in Aggs, y \in ContainerIDs :
            n.aggs[a].peaks[y] = IF y \in {x} THEN NoPeak ELSE Created(f).aggs[a].peaks[y]
  BY <1>4, ForgottenOK DEF NoPeak
<1> HIDE DEF a0, n
<1>6. P = [u \in Usages |-> IF u = usage THEN 1 ELSE 0]
  <2>1. n.aggs[a0].peaks[x] = [u \in Usages |-> 0]
    BY <1>4, <1>5 DEF NoPeak
  <2> QED BY <2>1
<1> HIDE DEF P
<1>7. P \in [Usages -> Int]
  <2>1. \A u \in Usages : (IF u = usage THEN 1 ELSE 0) \in Int
    OBVIOUS
  <2> QED BY <1>6, <2>1
<1>8. /\ StoreInv(store', selector) /\ store'.map = Created(f).map
      /\ store'.aggs[a0].peaks[x] = P
      /\ \A a \in Aggs, y \in ContainerIDs :
            a # a0 \/ y # x => store'.aggs[a].peaks[y] = n.aggs[a].peaks[y]
  BY <1>3, <1>4, <1>5, <1>7, PeaksChanged
<1>9. /\ containers' \in [ContainerIDs -> ContainerState]
      /\ containers'[x].aggregator = containers[x].aggregator
      /\ containers'[x].opened /\ containers'[x].peak = usage
      /\ \A y \in ContainerIDs \ {x} : containers'[y] = containers[y]
  BY <1>0, <1>1 DEF TypeOK, ContainerState
<1>10. ASSUME NEW y \in ContainerIDs, y # x PROVE ContainerOK(y)'
  <2>1. \A a \in Aggs : store'.aggs[a].peaks[y] = Created(f).aggs[a].peaks[y]
    BY <1>5, <1>8, <1>10
  <2>2. Grown(y)
    BY <1>0, <1>4, <1>8, <2>1, CreatedGrows
  <2> QED BY <1>0, <1>1, <1>9, <1>10, <2>2, Bystander
<1>11. ContainerOK(x)'
  <2>1. /\ WindowOK(x)' => ContainerOK(x)'
        /\ \A a \in Aggs : WritesTo(x, a)' <=> a = a0
        /\ containers'[x].aggregator = Proxy => store'.map[Key(x)'] # None
    BY <1>0, <1>1, <1>8, <1>9, Writer DEF a0
  <2>2. ASSUME NEW a \in Aggs
        PROVE  store'.aggs[a].peaks[x] =
                  [u \in Usages |-> IF u = containers'[x].peak /\ WritesTo(x, a)'
                                    THEN 1 ELSE 0]
    <3>1. CASE a = a0
      BY <1>6, <1>8, <1>9, <2>1, <3>1
    <3>2. CASE a # a0
      <4>1. store'.aggs[a].peaks[x] = NoPeak
        BY <1>5, <1>8, <3>2
      <4> QED BY <2>1, <3>2, <4>1 DEF NoPeak
    <3> QED BY <3>1, <3>2
  <2> QED BY <1>9, <2>1, <2>2 DEF WindowOK
<1>12. StoreInv(store, selector)' /\ moved' \subseteq ContainerIDs
  BY <1>0, <1>1, <1>8 DEF TypeOK
<1> QED BY <1>9, <1>10, <1>11, <1>12, Assembled

\* A larger sample of the window replaces its peak.
LEMMA AddMemorySampleOK ==
    ASSUME ClusterInv, CountInv', NEW x \in ContainerIDs, NEW usage \in Usages,
           AddMemorySample(x, usage)
    PROVE  LinksInv' /\ PeaksInv'
<1> DEFINE peak == containers[x].peak
<1>0. LinksInv /\ TypeOK /\ PeaksInv /\ peak \in Usages
  BY DEF ClusterInv, LinksInv, TypeOK, ContainerState
<1>1. /\ Exists(x) /\ containers[x].opened
      /\ UNCHANGED <<pods, selector, moved>>
  BY DEF AddMemorySample
<1>2. PICK f \in AggregatorAllocations(x) :
          store' = IF peak # 0 /\ usage > peak
                   THEN PeakReplaced(Created(f), Aggregator(x, f), x, peak, usage)
                   ELSE Created(f)
  BY DEF AddMemorySample
<1> DEFINE a0 == Aggregator(x, f)
           c == Created(f)
<1>3. a0 \in Aggs /\ StoreInv(c, selector)
  BY <1>0, <1>1, AggregatorOK
<1>4. PICK K \in SUBSET Keys : f \in Allocations(K)
  BY <1>0, <1>1, AggregatorOK
<1>5. CASE ~ (peak # 0 /\ usage > peak)
  <2>1. store' = c /\ containers' = containers
    <3>1. containers' = [containers EXCEPT ![x].peak = containers[x].peak]
      BY <1>5 DEF AddMemorySample
    <3> QED BY <1>0, <1>2, <1>5, <3>1 DEF TypeOK, ContainerState
  <2>2. \A y \in ContainerIDs : Grown(y)
    BY <1>0, <1>4, <2>1, CreatedGrows
  <2>3. \A y \in ContainerIDs : ContainerOK(y)'
    BY <1>0, <1>1, <2>1, <2>2, Bystander
  <2> QED BY <1>0, <1>1, <1>3, <2>1, <2>3, Assembled DEF TypeOK
<1>6. CASE peak # 0 /\ usage > peak
  <2> DEFINE P == [c.aggs[a0].peaks[x] EXCEPT ![peak] = @ - 1, ![usage] = @ + 1]
  <2>1. store' = WithPeaks(c, a0, x, P)
    BY <1>2, <1>6 DEF WithPeaks, PeakReplaced
  <2>2. c.aggs[a0].peaks[x] \in [Usages -> Int]
    <3>1. c.aggs \in [Aggs -> AggregateContainerState]
      BY <1>3, StoreParts DEF StoreInv
    <3> HIDE DEF c, a0
    <3> QED BY <1>3, <3>1 DEF AggregateContainerState
  <2> HIDE DEF a0, c, peak
  <2>3. /\ P \in [Usages -> Int]
        /\ P = [u \in Usages |-> IF u = usage THEN c.aggs[a0].peaks[x][u] + 1
                                 ELSE IF u = peak THEN c.aggs[a0].peaks[x][u] - 1
                                 ELSE c.aggs[a0].peaks[x][u]]
    <3>1. peak # usage
      BY <1>0, <1>6 DEF Usages
    <3> QED BY <1>0, <2>2, <3>1
  <2> HIDE DEF P
  <2>4. /\ StoreInv(store', selector) /\ store'.map = c.map
        /\ store'.aggs[a0].peaks[x] = P
        /\ \A a \in Aggs, y \in ContainerIDs :
              a # a0 \/ y # x => store'.aggs[a].peaks[y] = c.aggs[a].peaks[y]
    <3>1. P \in [Usages -> Int]
      BY <2>3
    <3> QED BY <1>3, <2>1, <3>1, PeaksChanged
  <2>5. /\ containers' \in [ContainerIDs -> ContainerState]
        /\ containers'[x].aggregator = containers[x].aggregator
        /\ containers'[x].opened /\ containers'[x].peak = usage
        /\ \A y \in ContainerIDs \ {x} : containers'[y] = containers[y]
    <3>1. containers' = [containers EXCEPT ![x].peak = usage]
      BY <1>6 DEF AddMemorySample, peak
    <3> QED BY <1>0, <1>1, <3>1 DEF TypeOK, ContainerState
  <2>6. ASSUME NEW y \in ContainerIDs, y # x PROVE ContainerOK(y)'
    <3>1. \A a \in Aggs : store'.aggs[a].peaks[y] = Created(f).aggs[a].peaks[y]
      BY <2>4, <2>6 DEF c
    <3>2. Grown(y)
      BY <1>0, <1>4, <2>4, <3>1, CreatedGrows DEF c
    <3> QED BY <1>0, <1>1, <2>5, <2>6, <3>2, Bystander
  <2>7. ContainerOK(x)'
    <3>1. /\ WindowOK(x)' => ContainerOK(x)'
          /\ \A a \in Aggs : WritesTo(x, a)' <=> a = a0
          /\ containers'[x].aggregator = Proxy => store'.map[Key(x)'] # None
      BY <1>0, <1>1, <2>4, <2>5, Writer DEF a0, c
    <3>2. CASE x \in moved
      BY <1>1, <2>5, <3>1, <3>2 DEF WindowOK
    <3>3. CASE x \notin moved
      <4>1. /\ containers[x].aggregator = Proxy => store.map[Key(x)] # None
            /\ \A a \in Aggs : store.aggs[a].peaks[x] =
                  [u \in Usages |-> IF u = peak /\ WritesTo(x, a) THEN 1 ELSE 0]
        BY <1>0, <1>1, <3>3 DEF PeaksInv, WindowOK, peak
      <4>2. Key(x) \in Keys
        BY <1>0, <1>1, KeyType DEF LinksInv, Owned
      <4>3. \A a \in Aggs : WritesTo(x, a) <=> a = a0
        <5>1. containers[x].aggregator = Proxy => store.map[Key(x)] = a0
          <6>1. containers[x].aggregator = Proxy => c.map[Key(x)] = a0
            BY <1>0, <1>1, AggregatorOK DEF a0, c
          <6>2. store.map[Key(x)] # None => c.map[Key(x)] = store.map[Key(x)]
            BY <1>0, <1>4, <4>2, CreatedOK DEF c
          <6> QED BY <4>1, <6>1, <6>2
        <5>2. containers[x].aggregator # Proxy => containers[x].aggregator = a0
          BY <1>0, <1>1, AggregatorOK DEF a0
        <5> QED BY <5>1, <5>2, ProxyAssumption DEF WritesTo
      <4>4. \A a \in Aggs : \/ c.aggs[a].peaks = store.aggs[a].peaks
                            \/ /\ a \notin Referenced(store, containers)
                               /\ c.aggs[a].peaks[x] = NoPeak
        BY <1>0, <1>4, CreatedOK, NewHasNoPeak DEF c
      <4>5. a0 \in Referenced(store, containers)
        <5>1. WritesTo(x, a0)
          BY <1>3, <4>3
        <5> QED BY <4>2, <5>1 DEF WritesTo, Referenced
      <4>6. ASSUME NEW a \in Aggs
            PROVE  store'.aggs[a].peaks[x] =
                      [u \in Usages |-> IF u = usage /\ WritesTo(x, a)' THEN 1 ELSE 0]
        <5>1. CASE a = a0
          <6>1. c.aggs[a0].peaks[x] = [u \in Usages |-> IF u = peak THEN 1 ELSE 0]
            BY <1>3, <4>1, <4>3, <4>4, <4>5
          <6>2. P = [u \in Usages |-> IF u = usage THEN 1 ELSE 0]
            <7>1. peak # usage
              BY <1>0, <1>6 DEF Usages
            <7> QED BY <1>0, <2>3, <6>1, <7>1
          <6> QED BY <2>4, <3>1, <5>1, <6>2
        <5>2. CASE a # a0
          <6>1. c.aggs[a].peaks[x] = [u \in Usages |-> 0]
            BY <4>1, <4>3, <4>4, <5>2 DEF NoPeak
          <6> QED BY <2>4, <3>1, <5>2, <6>1
        <5> QED BY <5>1, <5>2
      <4> QED BY <2>5, <3>1, <4>6 DEF WindowOK
    <3> QED BY <3>2, <3>3
  <2>8. StoreInv(store, selector)' /\ moved' \subseteq ContainerIDs
    BY <1>0, <1>1, <2>4 DEF TypeOK
  <2> QED BY <2>5, <2>6, <2>7, <2>8, Assembled
<1> QED BY <1>5, <1>6

-----------------------------------------------------------------------------
(* The theorems.                                                           *)

\* The invariant holds of the empty cluster state.
LEMMA InitInv == Init => ClusterInv
<1> SUFFICES ASSUME Init PROVE ClusterInv
  OBVIOUS
<1>1. /\ pods = [p \in Pods |-> NoPod]
      /\ containers = [x \in ContainerIDs |-> NoContainer]
      /\ store.map = [k \in Keys |-> None]
      /\ store.uses = [v \in Vpas |-> [k \in Keys |-> None]]
      /\ store.aggs = [a \in Aggs |-> NewAggregateContainerState]
      /\ store = [map |-> store.map, uses |-> store.uses, aggs |-> store.aggs]
      /\ selector = [v \in Vpas |-> None]
      /\ podCount = [v \in Vpas |-> 0]
      /\ moved = {}
  BY DEF Init
<1>2. /\ NoPod \in PodState /\ NoPod.labels = None
      /\ NoContainer \in ContainerState
      /\ NoContainer.aggregator = None /\ ~ NoContainer.opened
      /\ ~ NewAggregateContainerState.isUnderVPA
  BY MaxUsageAssumption
     DEF NoPod, PodState, NoContainer, ContainerState, Usages, NewAggregateContainerState
<1>3. store \in Store
  BY <1>1, NewAggregateType DEF Store
<1>4. TypeOK
  BY <1>1, <1>2, <1>3 DEF TypeOK
<1>5. StoreInv(store, selector)
  BY <1>1, <1>2, <1>3, Unselected DEF StoreInv
<1>6. Owned /\ NoStrayWrite
  BY <1>1, <1>2 DEF Owned, NoStrayWrite, Exists
<1>7. PeaksInv
  BY <1>1, <1>2, NewHasNoPeak DEF PeaksInv, WindowOK
<1>8. PodCountExact
  BY <1>1 DEF PodCountExact
<1> QED BY <1>4, <1>5, <1>6, <1>7, <1>8 DEF ClusterInv, LinksInv

\* Every operation preserves the invariant.
LEMMA StepInv == ClusterInv /\ [Next]_vars => ClusterInv'
<1> SUFFICES ASSUME ClusterInv, [Next]_vars PROVE ClusterInv'
  OBVIOUS
<1>1. CountInv' /\ PodCountExact'
  <2>1. CountInv
    BY DEF ClusterInv, LinksInv, TypeOK, CountInv
  <2> QED BY <2>1, CountStep DEF CountInv
<1>2. ASSUME NEW p \in Pods, NEW l \in LabelSets, NEW running \in BOOLEAN,
             AddOrUpdatePod(p, l, running)
      PROVE  LinksInv' /\ PeaksInv'
  BY <1>1, <1>2, AddOrUpdatePodOK
<1>3. ASSUME NEW p \in Pods, DeletePod(p) PROVE LinksInv' /\ PeaksInv'
  BY <1>1, <1>3, DeletePodOK
<1>4. ASSUME NEW x \in ContainerIDs, AddOrUpdateContainer(x) \/ AddCPUSample(x)
      PROVE  LinksInv' /\ PeaksInv'
  BY <1>1, <1>4, AddOrUpdateContainerOK, AddCPUSampleOK
<1>5. ASSUME NEW x \in Metered \X Containers, NEW usage \in Usages,
             AddMemorySample(x, usage) \/ AddMemorySampleInNewWindow(x, usage)
      PROVE  LinksInv' /\ PeaksInv'
  <2>1. x \in ContainerIDs
    BY MeteredAssumption DEF ContainerIDs
  <2> QED BY <1>1, <1>5, <2>1, AddMemorySampleOK, NewWindowOK
<1>6. ASSUME NEW v \in Vpas, NEW s \in Selectors, AddOrUpdateVpa(v, s)
      PROVE  LinksInv' /\ PeaksInv'
  BY <1>1, <1>6, AddOrUpdateVpaOK
<1>7. ASSUME NEW v \in Vpas, DeleteVpa(v) PROVE LinksInv' /\ PeaksInv'
  BY <1>1, <1>7, DeleteVpaOK
<1>8. CASE GarbageCollectAggregateCollectionStates
  BY <1>1, <1>8, GarbageCollectOK DEF ClusterInv
<1>9. ASSUME NEW k \in Keys, Expire(k) PROVE LinksInv' /\ PeaksInv'
  BY <1>1, <1>9, ExpireOK
<1>10. CASE UNCHANGED vars
  BY <1>10 DEF vars, ClusterInv, LinksInv, PeaksInv, TypeOK, StoreInv, Owned, NoStrayWrite,
            WindowOK, WritesTo, PodCountExact, Exists, PodExists, Key
<1>11. CASE Next
  <2>1. LinksInv' /\ PeaksInv'
    BY <1>2, <1>3, <1>4, <1>5, <1>6, <1>7, <1>8, <1>9, <1>11 DEF Next, ClusterInv
  <2> QED BY <1>1, <2>1 DEF ClusterInv
<1> QED BY <1>10, <1>11

\* The links, the count and the peaks are always in order.
THEOREM ClusterInvariant == Spec => []ClusterInv
BY InitInv, StepInv, PTL DEF Spec

\* The variables keep their types: no operation writes through a nil aggregation.
THEOREM TypeCorrect == Spec => []TypeOK
<1>1. ClusterInv => TypeOK
  BY DEF ClusterInv, LinksInv
<1> QED BY <1>1, ClusterInvariant, PTL

\* Every VPA reads exactly the aggregations of the map that its selector matches,
\* in whatever order pods, VPAs and collections came.
THEOREM VpaReads == Spec => []VpaReadsMap
<1>1. ClusterInv => VpaReadsMap
  BY DEF ClusterInv, LinksInv, StoreInv, VpaReadsMap
<1> QED BY <1>1, ClusterInvariant, PTL

\* Whatever counts as autoscaled is read by a VPA.
THEOREM AutoscaledTheorem == Spec => []AutoscaledIsRead
<1>1. ClusterInv => AutoscaledIsRead
  <2> SUFFICES ASSUME ClusterInv, NEW a \in Aggs, store.aggs[a].isUnderVPA
               PROVE  \E v \in Vpas : a \in Used(v)
    BY DEF AutoscaledIsRead
  <2>1. PICK v \in Vpas, k \in Keys : store.uses[v][k] = a
    BY DEF ClusterInv, LinksInv, StoreInv
  <2>2. a \in Used(v)
    BY <2>1, NoneAssumption DEF Used
  <2> QED BY <2>2
<1> QED BY <1>1, ClusterInvariant, PTL

\* What a VPA knows of its pods and aggregations is what there is.
THEOREM VpaBooks == Spec => []VpaBooksExact
<1>1. PodCountExact /\ VpaReadsMap /\ AutoscaledIsRead => VpaBooksExact
  BY DEF VpaBooksExact
<1> QED BY <1>1, PodCountTheorem, VpaReads, AutoscaledTheorem, PTL

\* A container with an aggregation of its own writes into that of its key or into
\* one that is no longer in the map.
THEOREM NoStrayTheorem == Spec => []NoStrayWrite
<1>1. ClusterInv => NoStrayWrite
  BY DEF ClusterInv, LinksInv
<1> QED BY <1>1, ClusterInvariant, PTL

\* The peak of a window that was not moved is counted exactly once.
THEOREM OnePeakTheorem == Spec => []OnePeakPerWindow
<1>1. ClusterInv => OnePeakPerWindow
  BY DEF ClusterInv, PeaksInv, WindowOK, WritesTo, OnePeakPerWindow
<1> QED BY <1>1, ClusterInvariant, PTL
=============================================================================
