--------------------------- MODULE SchedulerCache ---------------------------
(***************************************************************************)
(* schedulerCache of internal/cache/cache.go: the pods and nodes the       *)
(* scheduler believes in, fed by three independent callers that only meet  *)
(* at the cache's mutex:                                                   *)
(*   - the scheduling loop and its binding goroutines (AssumePod,          *)
(*     FinishBinding, ForgetPod, UpdateSnapshot),                          *)
(*   - the pod watch and the node watch (Add/Update/Remove of pods and of  *)
(*     nodes), which are not ordered with one another,                     *)
(*   - the goroutine that expires assumed pods once a second.              *)
(* Every operation holds the mutex from start to end and is one action,    *)
(* except the expiry sweep, which is one action per key it visits and      *)
(* keeps every other action out (variable sweep) until it is done.         *)
(***************************************************************************)
EXTENDS NodeInfo, Sequences, FiniteSets

CONSTANTS
    Nodes,          \* node names
    NoState,        \* an absent key of podStates
    MaxGeneration   \* bound: no new pod or node event beyond this generation

VARIABLES
    store,          \* cache.nodes, the linked list through it, the generation
    podStates,      \* podStates[p]: the podState of p, or NoState
    assumedPods,    \* the keys of cache.assumedPods
    tree,           \* the names in cache.nodeTree
    imageStates,    \* imageStates[i]: the nodes cache.imageStates lists for i
    sweep,          \* keys a running cleanupAssumedPods has still to visit
    snapshot,       \* the generic scheduler's Snapshot
    podWatch,       \* what the pod watch delivered last about each pod
    nodeWatch,      \* what the node watch delivered last about each node
    attempt         \* attempt[p][n][s]: binding cycles of p on n at stage s

cacheVars == <<podStates, assumedPods, tree, imageStates>>
watchVars == <<podWatch, nodeWatch>>
vars == <<store, podStates, assumedPods, tree, imageStates, sweep, snapshot,
          podWatch, nodeWatch, attempt>>

-----------------------------------------------------------------------------
(* The types.                                                              *)

\* A time.Time pointer, relative to now: nil, in the future, in the past.
Deadline == {"nil", "ahead", "passed"}

PodState == [node : Nodes, deadline : Deadline, bindingFinished : BOOLEAN]

ASSUME NoStateAssumption == NoState \notin PodState
ASSUME WatchAssumption == Nodes \cap {"unassigned", "gone"} = {}
ASSUME MaxGenerationAssumption == MaxGeneration \in Nat

\* A binding cycle assumed its pod (inFlight) or called FinishBinding (finished).
\* Two of the same pod may overlap: the first stalls after FinishBinding, its
\* assumption expires, and the pod is scheduled again.
Stage == {"inFlight", "finished"}

Store == [nodes : [Nodes -> NodeInfoType \cup {NoItem}],
          list : Seq(Nodes), generation : Nat]

Snapshot == [nodeInfoMap : [Nodes -> NodeInfoType \cup {NoItem}],
             nodeInfoList : SUBSET Nodes,
             havePodsWithAffinity : SUBSET Nodes,
             generation : Nat, ok : BOOLEAN]

TypeOK ==
    /\ store \in Store
    /\ podStates \in [Pods -> PodState \cup {NoState}]
    /\ assumedPods \subseteq Pods
    /\ tree \subseteq Nodes
    /\ imageStates \in [Images -> SUBSET Nodes]
    /\ sweep \subseteq Pods
    /\ snapshot \in Snapshot
    /\ podWatch \in [Pods -> Nodes \cup {"unassigned", "gone"}]
    /\ nodeWatch \in [Nodes -> {NoNode} \cup NodeObject]
    /\ attempt \in [Pods -> [Nodes -> [Stage -> Nat]]]

-----------------------------------------------------------------------------
(* cache.nodes with its doubly linked list, head first.                    *)

Linked(list, n) == \E k \in 1..Len(list) : list[k] = n

\* removeNodeInfoFromList: what came before the item is linked to what follows.
Unlinked(list, n) ==
    IF Linked(list, n)
    THEN LET k == CHOOSE k \in 1..Len(list) : list[k] = n IN
         [i \in 1..(Len(list) - 1) |-> IF i < k THEN list[i] ELSE list[i + 1]]
    ELSE list

\* moveNodeInfoToHead, for an item already in the list or a new one.
MovedToHead(list, n) == <<n>> \o Unlinked(list, n)

\* Every change of a NodeInfo takes a new generation and puts its item at the
\* head of the list, unless it ends the item.
Touched(s, n, info) ==
    [nodes |-> [s.nodes EXCEPT ![n] = info],
     list |-> MovedToHead(s.list, n),
     generation |-> info.gen]

Dropped(s, n, gen) ==
    [nodes |-> [s.nodes EXCEPT ![n] = NoItem],
     list |-> Unlinked(s.list, n),
     generation |-> gen]

\* The item of n, created when the map has none; NewNodeInfo takes a generation.
ItemOrNew(s, n) ==
    IF s.nodes[n] = NoItem THEN NewNodeInfo(s.generation + 1) ELSE s.nodes[n]

\* The generation a change of that item takes.
NextGen(s, n) == s.generation + (IF s.nodes[n] = NoItem THEN 2 ELSE 1)

addPod(s, p, n) == Touched(s, n, InfoAddPod(ItemOrNew(s, n), p, NextGen(s, n)))

\* removePod returns an error, and changes nothing, for a pod its node does not
\* hold; for a node the cache does not hold it returns nil and changes nothing.
removePodFails(s, p, n) ==
    s.nodes[n] # NoItem /\ ~ InfoHasPod(s.nodes[n], p)

\* Mutant: the item keeps its place in the list.
removePodInPlace(s, p, n) ==
    IF s.nodes[n] = NoItem \/ removePodFails(s, p, n) THEN s
    ELSE LET info == InfoRemovePod(s.nodes[n], p, s.generation + 1) IN
         IF NoPods(info) /\ info.node = NoNode
         THEN Dropped(s, n, info.gen)
         ELSE [Touched(s, n, info) EXCEPT !.list = s.list]

\* A node that was deleted leaves the cache with its last pod.
removePod(s, p, n) ==
    IF s.nodes[n] = NoItem \/ removePodFails(s, p, n) THEN s
    ELSE LET info == InfoRemovePod(s.nodes[n], p, s.generation + 1) IN
         IF NoPods(info) /\ info.node = NoNode
         THEN Dropped(s, n, info.gen)
         ELSE Touched(s, n, info)

\* AddNode and UpdateNode: the item gets the node object.
setNode(s, n, obj) == Touched(s, n, SetNode(ItemOrNew(s, n), obj, NextGen(s, n)))

\* RemoveNode: an item with pods stays behind as a ghost.
removeNode(s, n) ==
    LET info == RemoveNodeObject(s.nodes[n], s.generation + 1) IN
    IF NoPods(info) THEN Dropped(s, n, info.gen) ELSE Touched(s, n, info)

\* The cached *v1.Node of n, nil when there is none.
NodeOf(s, n) == IF s.nodes[n] = NoItem THEN NoNode ELSE s.nodes[n].node

removeNodeImageStates(states, n, obj) ==
    [i \in Images |-> IF obj # NoNode /\ i \in obj THEN states[i] \ {n}
                                                   ELSE states[i]]

addNodeImageStates(states, n, obj) ==
    [i \in Images |-> IF i \in obj THEN states[i] \cup {n} ELSE states[i]]

-----------------------------------------------------------------------------
(* Initial state: newSchedulerCache, NewEmptySnapshot, empty informers.    *)

Init ==
    /\ store = [nodes |-> [n \in Nodes |-> NoItem], list |-> <<>>,
                generation |-> 0]
    /\ podStates = [p \in Pods |-> NoState]
    /\ assumedPods = {}
    /\ tree = {}
    /\ imageStates = [i \in Images |-> {}]
    /\ sweep = {}
    /\ snapshot = [nodeInfoMap |-> [n \in Nodes |-> NoItem],
                   nodeInfoList |-> {}, havePodsWithAffinity |-> {},
                   generation |-> 0, ok |-> TRUE]
    /\ podWatch = [p \in Pods |-> "unassigned"]
    /\ nodeWatch = [n \in Nodes |-> NoNode]
    /\ attempt = [p \in Pods |-> [n \in Nodes |-> [s \in Stage |-> 0]]]

\* Bound: the callers that bring new work stop at MaxGeneration, the ones that
\* finish work never do.
MayGrow == store.generation < MaxGeneration

-----------------------------------------------------------------------------
(* The scheduling loop and its binding goroutines.                         *)

\* One binding cycle of p on n leaves stage from and enters stage to.
Moved(p, n, from, to) ==
    [attempt EXCEPT ![p][n] =
        [s \in Stage |-> IF s = to THEN attempt[p][n][s] + 1
                         ELSE IF s = from THEN attempt[p][n][s] - 1
                         ELSE attempt[p][n][s]]]

newPodState(n) == [node |-> n, deadline |-> "nil", bindingFinished |-> FALSE]

\* scheduleOne assumes the pod on a node of its last snapshot.  A pod the cache
\* knows already is refused and nothing changes.
AssumePod(p, n) ==
    /\ MayGrow
    /\ n \in snapshot.nodeInfoList
    /\ podStates[p] = NoState
    /\ store' = addPod(store, p, n)
    /\ podStates' = [podStates EXCEPT ![p] = newPodState(n)]
    /\ assumedPods' = assumedPods \cup {p}
    /\ attempt' = Moved(p, n, "none", "inFlight")
    /\ UNCHANGED <<tree, imageStates, sweep, snapshot, watchVars>>

\* The deferred finishBinding of sched.bind, whether the bind succeeded or not.
\* Only a pod that is still assumed gets a deadline.
FinishBinding(p, n) ==
    /\ attempt[p][n]["inFlight"] > 0
    /\ attempt' = Moved(p, n, "inFlight", "finished")
    /\ podStates' =
         IF podStates[p] # NoState /\ p \in assumedPods
         THEN [podStates EXCEPT ![p].bindingFinished = TRUE,
                                ![p].deadline = "ahead"]
         ELSE podStates
    /\ UNCHANGED <<store, assumedPods, tree, imageStates, sweep, snapshot,
                   watchVars>>

\* The binding cycle gives up: at Reserve, Permit, PreBind or after a failed
\* bind.  Only an assumed pod on the same node is forgotten.
ForgetPod(p, n) ==
    /\ \E s \in Stage : /\ attempt[p][n][s] > 0
                      /\ attempt' = Moved(p, n, s, "none")
    /\ IF /\ podStates[p] # NoState
          /\ podStates[p].node = n
          /\ p \in assumedPods
          /\ ~ removePodFails(store, p, n)
       THEN /\ store' = removePod(store, p, n)
            /\ podStates' = [podStates EXCEPT ![p] = NoState]
            /\ assumedPods' = assumedPods \ {p}
       ELSE UNCHANGED <<store, podStates, assumedPods>>
    /\ UNCHANGED <<tree, imageStates, sweep, snapshot, watchVars>>

\* The bind succeeded: the goroutine ends and the pod stays assumed until the
\* watch confirms it or it expires.
BindSucceeded(p, n) ==
    /\ attempt[p][n]["finished"] > 0
    /\ attempt' = Moved(p, n, "finished", "none")
    /\ UNCHANGED <<store, cacheVars, sweep, snapshot, watchVars>>

-----------------------------------------------------------------------------
(* The pod watch.  A pod is bound at most once, to any node: another       *)
(* scheduler may have bound it, and its node may be unknown to the cache.  *)

\* Mutant: the pod confirmed on another node is not taken off the assumed one.
AddPodTwice(p, n) ==
    /\ MayGrow
    /\ podWatch[p] = "unassigned"
    /\ podWatch' = [podWatch EXCEPT ![p] = n]
    /\ store' = IF p \in assumedPods /\ podStates[p].node = n THEN store
                ELSE addPod(store, p, n)
    /\ assumedPods' = assumedPods \ {p}
    /\ podStates' = [podStates EXCEPT ![p] = newPodState(n)]
    /\ UNCHANGED <<tree, imageStates, sweep, snapshot, nodeWatch, attempt>>

\* Mutant: the confirmed pod stays in assumedPods.
AddPodStaysAssumed(p, n) ==
    /\ MayGrow
    /\ podWatch[p] = "unassigned"
    /\ podWatch' = [podWatch EXCEPT ![p] = n]
    /\ IF podStates[p] # NoState
       THEN /\ podStates' = [podStates EXCEPT ![p].deadline = "nil",
                                              ![p].node = n]
            /\ store' = addPod(removePod(store, p, podStates[p].node), p, n)
       ELSE /\ podStates' = [podStates EXCEPT ![p] = newPodState(n)]
            /\ store' = addPod(store, p, n)
    /\ UNCHANGED <<assumedPods, tree, imageStates, sweep, snapshot, nodeWatch,
                   attempt>>

AddPod(p, n) ==
    /\ MayGrow
    /\ podWatch[p] = "unassigned"
    /\ podWatch' = [podWatch EXCEPT ![p] = n]
    /\ IF podStates[p] # NoState /\ p \in assumedPods
       THEN /\ store' = IF podStates[p].node = n THEN store
                        ELSE addPod(removePod(store, p, podStates[p].node), p, n)
            /\ assumedPods' = assumedPods \ {p}
            /\ podStates' = [podStates EXCEPT ![p].deadline = "nil",
                                              ![p].node = n]
       ELSE IF podStates[p] = NoState
       THEN /\ store' = addPod(store, p, n)
            /\ podStates' = [podStates EXCEPT ![p] = newPodState(n)]
            /\ UNCHANGED assumedPods
       ELSE UNCHANGED <<store, podStates, assumedPods>>
    /\ UNCHANGED <<tree, imageStates, sweep, snapshot, nodeWatch, attempt>>

\* An update of an assigned pod takes the old pod out and puts the new one in.
UpdatePod(p) ==
    /\ MayGrow
    /\ podWatch[p] \in Nodes
    /\ podStates[p] # NoState /\ p \notin assumedPods
    /\ ~ removePodFails(store, p, podWatch[p])
    /\ store' = addPod(removePod(store, p, podWatch[p]), p, podWatch[p])
    /\ UNCHANGED <<cacheVars, sweep, snapshot, watchVars, attempt>>

RemovePod(p) ==
    /\ podWatch[p] \in Nodes
    /\ podWatch' = [podWatch EXCEPT ![p] = "gone"]
    /\ IF /\ podStates[p] # NoState
          /\ p \notin assumedPods
          /\ ~ removePodFails(store, p, podStates[p].node)
       THEN /\ store' = removePod(store, p, podStates[p].node)
            /\ podStates' = [podStates EXCEPT ![p] = NoState]
       ELSE UNCHANGED <<store, podStates>>
    /\ UNCHANGED <<assumedPods, tree, imageStates, sweep, snapshot, nodeWatch,
                   attempt>>

\* The pod is deleted while the watch still shows it unassigned: the handlers of
\* assigned pods filter the event out, also when a relist lost the binding.
UnassignedPodGone(p) ==
    /\ podWatch[p] = "unassigned"
    /\ podWatch' = [podWatch EXCEPT ![p] = "gone"]
    /\ UNCHANGED <<store, cacheVars, sweep, snapshot, nodeWatch, attempt>>

-----------------------------------------------------------------------------
(* The node watch.                                                         *)

AddNode(n, obj) ==
    /\ MayGrow
    /\ nodeWatch[n] = NoNode
    /\ nodeWatch' = [nodeWatch EXCEPT ![n] = obj]
    /\ imageStates' = addNodeImageStates(
            removeNodeImageStates(imageStates, n, NodeOf(store, n)), n, obj)
    /\ tree' = tree \cup {n}
    /\ store' = setNode(store, n, obj)
    /\ UNCHANGED <<podStates, assumedPods, sweep, snapshot, podWatch, attempt>>

\* nodeTree.updateNode does nothing: GetZoneKey puts every node in one zone.
UpdateNode(n, obj) ==
    /\ MayGrow
    /\ nodeWatch[n] # NoNode
    /\ nodeWatch' = [nodeWatch EXCEPT ![n] = obj]
    /\ imageStates' = addNodeImageStates(
            removeNodeImageStates(imageStates, n, NodeOf(store, n)), n, obj)
    /\ tree' = IF store.nodes[n] = NoItem THEN tree \cup {n} ELSE tree
    /\ store' = setNode(store, n, obj)
    /\ UNCHANGED <<podStates, assumedPods, sweep, snapshot, podWatch, attempt>>

\* The images are taken out only after nodeTree.removeNode found the node.
RemoveNode(n) ==
    /\ nodeWatch[n] # NoNode
    /\ nodeWatch' = [nodeWatch EXCEPT ![n] = NoNode]
    /\ IF store.nodes[n] # NoItem
       THEN /\ store' = removeNode(store, n)
            /\ tree' = tree \ {n}
            /\ imageStates' =
                 IF n \in tree
                 THEN removeNodeImageStates(imageStates, n, nodeWatch[n])
                 ELSE imageStates
       ELSE UNCHANGED <<store, tree, imageStates>>
    /\ UNCHANGED <<podStates, assumedPods, sweep, snapshot, podWatch, attempt>>

-----------------------------------------------------------------------------
(* Expiry.                                                                 *)

\* ttl passes after FinishBinding.
DeadlinePasses(p) ==
    /\ podStates[p] # NoState
    /\ podStates[p].deadline = "ahead"
    /\ podStates' = [podStates EXCEPT ![p].deadline = "passed"]
    /\ UNCHANGED <<store, assumedPods, tree, imageStates, sweep, snapshot,
                   watchVars, attempt>>

\* cleanupAssumedPods takes the mutex and ranges over the assumed pods.
CleanupStart ==
    /\ assumedPods # {}
    /\ sweep' = assumedPods
    /\ UNCHANGED <<store, cacheVars, snapshot, watchVars, attempt>>

\* Mutant: a binding still in progress does not stop the expiry.
CleanupVisitUnfinished(p) ==
    /\ p \in sweep
    /\ sweep' = sweep \ {p}
    /\ IF podStates[p].deadline # "ahead"
       THEN /\ store' = removePod(store, p, podStates[p].node)
            /\ assumedPods' = assumedPods \ {p}
            /\ podStates' = [podStates EXCEPT ![p] = NoState]
       ELSE UNCHANGED <<store, assumedPods, podStates>>
    /\ UNCHANGED <<tree, imageStates, snapshot, watchVars, attempt>>

\* One round of its loop, in the order of a map: any.
CleanupVisit(p) ==
    /\ p \in sweep
    /\ sweep' = sweep \ {p}
    /\ IF /\ podStates[p].bindingFinished
          /\ podStates[p].deadline = "passed"
          /\ ~ removePodFails(store, p, podStates[p].node)
       THEN /\ store' = removePod(store, p, podStates[p].node)
            /\ assumedPods' = assumedPods \ {p}
            /\ podStates' = [podStates EXCEPT ![p] = NoState]
       ELSE UNCHANGED <<store, assumedPods, podStates>>
    /\ UNCHANGED <<tree, imageStates, snapshot, watchVars, attempt>>

-----------------------------------------------------------------------------
(* UpdateSnapshot.                                                         *)

Keys(map) == {n \in Nodes : map[n] # NoItem}

\* The items the walk from the head reaches before the first one that is not
\* newer than the snapshot.
Visited ==
    {store.list[i] : i \in
        {k \in 1..Len(store.list) : \A j \in 1..k :
            store.nodes[store.list[j]].gen > snapshot.generation}}

\* Of those, the ones with a node object are cloned into nodeInfoMap.
Cloned == {n \in Visited : NodeOf(store, n) # NoNode}

CopiedMap ==
    [n \in Nodes |-> IF n \in Cloned THEN store.nodes[n]
                                     ELSE snapshot.nodeInfoMap[n]]

\* A visited node that the snapshot did not have asks for both lists.
SomeNodeNew == \E n \in Cloned : snapshot.nodeInfoMap[n] = NoItem

\* An entry without pods with affinity: an absent one, or one that has none.
AffinityIn(map, n) == map[n] # NoItem /\ HasPodsWithAffinity(map[n])

AffinityFlipped ==
    \E n \in Cloned :
        AffinityIn(snapshot.nodeInfoMap, n) # AffinityIn(CopiedMap, n)

\* removeDeletedNodesFromSnapshot deletes as many entries as the map has more
\* than the cache, in the order of a map: any of those the cache has not.
DeletedNodes ==
    IF Cardinality(Keys(CopiedMap)) > Cardinality(Keys(store.nodes))
    THEN {D \in SUBSET (Keys(CopiedMap) \ Keys(store.nodes)) :
            Cardinality(D) = Cardinality(Keys(CopiedMap))
                                - Cardinality(Keys(store.nodes))}
    ELSE {{}}

\* Mutant: the list is read off the map, not off the tree.
ListOfMap(map) == Keys(map)

\* updateNodeInfoSnapshotList with updateAll: the nodes of the tree that the map
\* knows.
ListOf(map) == tree \cap Keys(map)

UpdateSnapshot ==
    \E D \in DeletedNodes :
    LET map == [n \in Nodes |-> IF n \in D THEN NoItem ELSE CopiedMap[n]]
        updateAllLists == SomeNodeNew \/ D # {}
        list == IF updateAllLists THEN ListOf(map) ELSE snapshot.nodeInfoList
        ok == Cardinality(list) = Cardinality(tree)
        recovered == IF ok THEN list ELSE ListOf(map)
    IN  /\ snapshot' =
             [nodeInfoMap |-> map,
              nodeInfoList |-> recovered,
              havePodsWithAffinity |->
                 IF updateAllLists \/ AffinityFlipped \/ ~ ok
                 THEN {n \in recovered : HasPodsWithAffinity(map[n])}
                 ELSE snapshot.havePodsWithAffinity,
              generation |-> IF store.list = <<>> THEN snapshot.generation
                             ELSE store.nodes[store.list[1]].gen,
              ok |-> ok]
        /\ UNCHANGED <<store, cacheVars, sweep, watchVars, attempt>>

-----------------------------------------------------------------------------

Operation ==
    \/ \E p \in Pods, n \in Nodes :
          \/ AssumePod(p, n)
          \/ FinishBinding(p, n)
          \/ ForgetPod(p, n)
          \/ BindSucceeded(p, n)
          \/ AddPod(p, n)
    \/ \E p \in Pods :
          \/ UpdatePod(p)
          \/ RemovePod(p)
          \/ UnassignedPodGone(p)
    \/ \E n \in Nodes, obj \in NodeObject :
          \/ AddNode(n, obj)
          \/ UpdateNode(n, obj)
    \/ \E n \in Nodes : RemoveNode(n)
    \/ UpdateSnapshot
    \/ CleanupStart

\* The mutex: no operation runs while a sweep does.  Time does not wait for it;
\* the sweep compares with the time it started, and a deadline that passes in
\* between might as well have passed before.
Next ==
    \/ sweep = {} /\ Operation
    \/ \E p \in Pods : CleanupVisit(p) \/ DeadlinePasses(p)

Spec == Init /\ [][Next]_vars

-----------------------------------------------------------------------------
(* Safety.                                                                 *)

Known(p) == podStates[p] # NoState

\* How many times node n accounts for the requests of p.
CountIn(s, p, n) == IF s.nodes[n] = NoItem THEN 0 ELSE s.nodes[n].pods[p]
Count(p, n) == CountIn(store, p, n)

\* A key of assumedPods is a key of podStates: cleanupAssumedPods exits the
\* process (klog.Fatal) when it finds one that is not.
AssumedAreKnown == \A p \in assumedPods : Known(p)

\* A pod the cache knows is accounted for exactly once, on the node its podState
\* names, and a pod it does not know nowhere: no sequence of assume, confirm on
\* another node, update, forget, expiry and removal of the node leaks requests
\* or counts them twice.
Placement ==
    \A p \in Pods, n \in Nodes :
        Count(p, n) = IF Known(p) /\ podStates[p].node = n THEN 1 ELSE 0

\* The pods in "added" state are the ones the watch shows assigned, on the same
\* node: UpdatePod and RemovePod exit the process (klog.Fatalf, "Schedulercache
\* is corrupted") when the node differs, and an event for a pod the cache lost
\* would be dropped with an error.
WatchMirrored ==
    \A p \in Pods :
        /\ Known(p) /\ p \notin assumedPods <=> podWatch[p] \in Nodes
        /\ podWatch[p] \in Nodes => podStates[p].node = podWatch[p]

\* cleanupAssumedPods dereferences the deadline of an assumed pod whose binding
\* finished; AddPod sets the pointer to nil and leaves bindingFinished set.
FinishedHasDeadline ==
    \A p \in assumedPods :
        podStates[p].bindingFinished => podStates[p].deadline # "nil"

\* The branches that end the process are out of reach: klog.Fatal and the nil
\* deadline of the sweep, klog.Fatalf of UpdatePod and RemovePod.
NoFatalBranch == AssumedAreKnown /\ FinishedHasDeadline /\ WatchMirrored

\* An assumed pod is not dropped behind the back of its binding cycle: only a
\* binding cycle of the pod gives it up, or the sweep once the binding finished.
\* The node counts the requests of a pod for as long as it is being bound there.
KeptWhileBinding ==
    [][\A p \in assumedPods :
        podStates'[p] = NoState =>
            podStates[p].bindingFinished \/ attempt'[p] # attempt[p]]_vars

\* The cache keeps an item exactly for the nodes that exist and the deleted ones
\* that still hold pods, and the node tree, the source of truth, has the former.
NoLeakedItem ==
    /\ \A n \in Nodes :
          store.nodes[n] # NoItem =>
              store.nodes[n].node # NoNode \/ ~ NoPods(store.nodes[n])
    /\ tree = {n \in Nodes : NodeOf(store, n) # NoNode}

\* The linked list threads every item once, from the most recently changed to
\* the least: UpdateSnapshot stops at the first item that is not newer than the
\* snapshot, so a node out of order would keep a stale copy in the snapshot.
ListSorted ==
    /\ {store.list[i] : i \in 1..Len(store.list)} = Keys(store.nodes)
    /\ \A i, j \in 1..Len(store.list) :
          i < j => store.nodes[store.list[i]].gen > store.nodes[store.list[j]].gen

\* imageStates lists for every image exactly the existing nodes that report it,
\* across updates that add or drop images and nodes that come back.
ImageStatesExact ==
    \A i \in Images :
        imageStates[i] = {n \in Nodes : /\ NodeOf(store, n) # NoNode
                                        /\ i \in NodeOf(store, n)}

\* The cache's books: each pod is accounted for once and on its node, items, list,
\* tree and image states agree with the nodes there are.
StoreExact == Placement /\ NoLeakedItem /\ ListSorted /\ ImageStatesExact

\* The incremental snapshot misses no change: a node not newer than the snapshot
\* is in it exactly as it is in the cache.
SnapshotExact ==
    \A n \in Nodes :
        NodeOf(store, n) # NoNode /\ store.nodes[n].gen <= snapshot.generation
            => snapshot.nodeInfoMap[n] = store.nodes[n]

\* havePodsWithAffinityNodeInfoList has exactly the listed nodes with such pods,
\* though it is rebuilt only when a node changed status or a list was rebuilt.
SnapshotAffinityExact ==
    snapshot.havePodsWithAffinity =
        {n \in snapshot.nodeInfoList : AffinityIn(snapshot.nodeInfoMap, n)}

\* What the incremental UpdateSnapshot leaves is what copying everything would; but for
\* the list of nodes, which may be an old one (Disagreement 1).  The list of nodes with
\* affinity is right by the list there is.
SnapshotCopies == SnapshotExact /\ SnapshotAffinityExact

\* UpdateSnapshot that reports an inconsistency has "recovered for the next
\* scheduling cycle": its list is then the nodes of the tree.
SnapshotRecovers ==
    [][snapshot' # snapshot /\ ~ snapshot'.ok => snapshot'.nodeInfoList = tree]_vars

-----------------------------------------------------------------------------
(* The cache implements its interface.                                     *)

Phase ==
    [p \in Pods |-> IF ~ Known(p) THEN "Absent"
                    ELSE IF p \in assumedPods THEN "Assumed" ELSE "Added"]

Aggregated == [n \in Nodes |-> {p \in Pods : Count(p, n) > 0}]

Expirable == {p \in assumedPods : podStates[p].bindingFinished}

Interface ==
    INSTANCE CacheInterface WITH
        phase <- Phase, aggregated <- Aggregated, expirable <- Expirable

\* The pod state machine of interface.go: every step of the cache is one of its
\* transitions or leaves phases and aggregates alone.
ImplementsInterface == Interface!Spec

=============================================================================
