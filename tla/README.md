# cloud-prophet: a TLA+ verification of the scheduler and the recommender

cloud-prophet is a Go program in two halves: `src/scheduler`, a pod scheduler
derived from kube-scheduler 1.19, and `src/recommender`, a resource recommender
derived from the vertical pod autoscaler, with small learning (`src/learn`) and
profiling (`src/profil`) programs around them. This project models

- the part of the scheduler where goroutines meet: the cache, the queue, the loop,
  binding goroutines and event handlers that share them, the pods that wait in the
  Permit phase, and the parallel search for feasible nodes;
- what a scheduling cycle computes: the framework's runners, extenders, the default
  filter and score plugins and the default preemption;
- the recommender: its model of the cluster, where pods, containers, VPAs and
  aggregations are linked by reference; its loop with feeder, OOM observer and
  checkpoint writer over crashes; its histograms and estimators.

`PROJECT.json` maps every definition that models code to its lines, and lists
the runs, the mutants, the hazards, the finding and the theorems.

## 1. Inventory

### Scheduler

| component | state | operations | met by |
|---|---|---|---|
| cache (`internal/cache/cache.go`, `snapshot.go`) | `nodes` and the doubly linked list through it, `podStates`, `assumedPods`, `nodeTree`, `imageStates`; the caller's `Snapshot` | AssumePod, FinishBinding, ForgetPod, Add/Update/RemovePod, Add/Update/RemoveNode, UpdateSnapshot, cleanupAssumedPods | scheduling loop, binding goroutines, pod and node handlers, sweep goroutine; one mutex |
| NodeInfo (`framework/v1alpha1/types.go`) | node object, pods, pods with affinity, requested sums, host ports, image summaries, generation | AddPod, RemovePod, SetNode, RemoveNode, Clone | the cache; dry runs |
| queue (`internal/queue/scheduling_queue.go`) | activeQ, podBackoffQ, unschedulableQ, nominator, schedulingCycle, moveRequestCycle, condition variable | Add, Update, Delete, Pop, AddUnschedulableIfNotPresent, MoveAll, AssignedPodAdded/Updated, two flushes, Add/Delete/UpdateNominatedPod | loop, binding goroutines, handlers, two timer goroutines |
| loop and binding cycle (`scheduler.go`) | the pod in hand and where it is | scheduleOne, assume, bind, finishBinding, recordSchedulingFailure | queue, cache, API server, plugins |
| event handlers (`eventhandlers.go`) | none of their own | handlers of unassigned and assigned pods, of nodes, and of the objects that only trigger MoveAll | informers call them; they call the queue and the cache |
| error function (`factory.go`) | none | look the pod up in the lister, put it back | loop and binding goroutines |
| generic scheduler (`core/generic_scheduler.go`) | snapshot, nextStartNodeIndex; during a search the slots, the counter, the statuses, the error channel | Schedule: basic checks, snapshot, filters in parallel, extenders, scores, selectHost | loop; sixteen workers |
| extenders (`core/extender.go`) | none | IsInterested, Filter, Prioritize, Bind | generic scheduler, binding goroutines |
| framework runtime (`framework/runtime`) | plugin lists and weights, waiting pods of Permit | one per extension point; Allow, Reject, timeout | loop, binding goroutines, handlers |
| topology spread, inter-pod affinity, node plugins (`framework/plugins`) | their states in CycleState | PreFilter, AddPod, RemovePod, Filter, PreScore, Score, NormalizeScore | framework; preemption |
| default preemption (`plugins/defaultpreemption`) | copies of NodeInfo and CycleState | eligibility, dry runs, reprieves, choice, deletion of victims | PostFilter |

Hard here: the scheduler acts on its own optimistic picture. A pod is *assumed*
on a node before the API server has bound it; the confirmation arrives through a
watch that is not ordered with the binding goroutine, with the watch of nodes, or
with the queue's view of the same pod. Assumptions expire, binds fail or succeed
with a lost answer, other schedulers bind the same pod elsewhere, nodes vanish
under their pods, and an event that would make a pod fit may arrive while the pod
is between being tried and being put back. Within a cycle, workers race for slots
and for the one place in the error channel, and the plugins keep their counts by
increments and decrements instead of counting again.

What makes the parts correct:

- cache: every pod is counted once, on one node; the process-ending branches
  are unreachable; the incremental snapshot is what a full copy would be; no
  assumption is dropped while its binding is in flight;
- queue: a pod is in one sub-queue; Pop does not sleep over a pod; the two
  nomination maps agree;
- waiting pods: nobody's permission or veto is lost in the race for the channel,
  an answer for one cycle does not reach another, and every wait ends;
- generic scheduler: the search finds different nodes that fit, and enough of them
  or all of them; an error is never lost; "unschedulable" is only said of a pod no
  examined node can take; the host is the best by the configured weights;
  reservations end with the cycle that made them;
- plugins and preemption: incremental states judge a node as fresh ones would;
  victims are needed, the least important, and on the best node;
- scheduler together: no pod is lost, no helpful event is lost, cache and API agree
  once everyone has caught up, every pending pod is tried again and again, and no
  assumption lasts for ever.

### Recommender

| component | state | hard behaviours |
|---|---|---|
| model (`model/cluster.go`, `vpa.go`, `container.go`, `aggregate_container_state.go`) | pods, VPAs, aggregations shared by reference between containers and VPAs, per-container memory windows | label and selector changes re-link containers to aggregations; garbage collection drops aggregations that a container still writes to; a peak that grows is subtracted and added again; OOM samples out of order |
| histograms (`util`) | bucket weights, bounds, decay reference | subtract below epsilon, shift of the decay reference, checkpoint rounding |
| estimators (`logic`) | none | confidence of zero, minimum per container, order of the three bounds |
| feeder and inputs (`input`) | the OOM channel of capacity 5000 | a sender without default; passes that fail halfway; a watch that reports again |
| checkpoint writer (`checkpoint`) | CheckpointWritten per VPA | order, deadline, partial failure, restart |
| loop (`routines`) and autopilot (`auto`) | the above | fixed order of passes, a crash between any two |

What makes them correct: a VPA reads exactly the aggregations it matches, whatever
came first; containers write to those of their labels; the pod count is exact; a
memory window contributes one peak, also over restarts; what a checkpoint holds is
not lost; every container's checkpoint is written again and again; a percentile is
that of the samples; the lower bound, the target and the upper bound are in order.

`learn`, `profil`, the programs, the data types and the metrics are sequential
numeric or I/O code and are not modelled.

## 2. Modules

```
NodeInfo ── SchedulerCache ──(refines)──> CacheInterface
                 │                              │ INSTANCE
      SchedulerCacheProofs                      │
                                                v
SchedulingQueue ───────(EXTENDS)────────> Scheduler
                                                │
                                         SchedulerProofs (queue and scheduler)

WaitingPods ── WaitingPodsProofs

Framework ── GenericScheduler ── GenericSchedulerProofs

            ┌ PodTopologySpread ┐
PluginTypes ┼ InterPodAffinity  ┼ Preemption ── PreemptionProofs
            └ NodePlugins       ┘

ClusterState ── ClusterStateProofs
Recommender ── RecommenderProofs
Histogram ── Estimators ── EstimatorsProofs (histograms and estimators)
```

- **NodeInfo**: a NodeInfo as a record of node object (the set of its images),
  pods, pods with affinity and generation, with AddPod, RemovePod, SetNode and
  RemoveNode. The pods are a count per pod, so that counting one twice is a state
  that can be reached if the cache allows it.
- **SchedulerCache**: `schedulerCache`. Every operation holds the mutex and is
  one action. `cleanupAssumedPods` is one action per key it visits, because the
  order is a Go map's, and keeps all others out while it runs (`sweep`). The map
  of nodes, its linked list and the generation counter are one record, `store`,
  and `addPod`, `removePod`, `Touched` and `Dropped` are functions of it, because
  AddPod and UpdatePod change it twice in one operation. Deadlines are nil, ahead
  or passed. `attempt` counts binding cycles per pod, node and stage: two cycles
  of one pod overlap when the first stalls after FinishBinding and its assumption
  expires. `podWatch` and `nodeWatch` are the last events delivered: their
  guards are what informers can deliver, in any order between the two.
  `UpdateSnapshot` walks the list to the first item that is not newer, copies,
  deletes as many surplus entries as there are (any of the candidates), and
  rebuilds the lists only under the code's conditions.
- **CacheInterface**: the pod state machine drawn in `interface.go`, with which
  pods each node accounts for and which may expire. SchedulerCache implements it.
- **SchedulingQueue**: `PriorityQueue` and the nominator, one action per locked
  operation; `QueueSpec` is the queue under callers in any order.
- **Scheduler**: `scheduleOne`, the goroutines it starts for binding, the error
  function, the informers and all handlers, over the queue's actions and the
  cache's interface. Where the code releases a lock or a goroutine may be
  overtaken, there is a step: Error reads the lister and SchedulingCycle before
  it takes the queue's lock; the nomination is recorded after that; a handler
  changes the cache first and calls the queue later; FinishBinding follows the
  bind and precedes ForgetPod. What a plugin or the algorithm says is a choice.
- **WaitingPods**: `waitingPodsMap`, `waitingPod`, RunPermitPlugins and
  WaitOnPermit. A waitingPod is the plugins still to allow, a timer for each and
  the channel of one; Allow, Reject and a timer's function act on it in one step
  each, under its mutex. To get it from the map and to call it are two steps
  (`GetWaitingPod`, then `Allow` or `Reject`), as are a timer's firing and its
  function, WaitOnPermit's receive and its deferred remove. The cache appears as
  what keeps two cycles of a pod apart, `assumption`; the constant `Stalls` says
  whether a binding goroutine may outlive its assumption. A pod that another
  client binds while it waits, and that is then deleted, is left out.
- **Framework**: NewFramework's checks and weights, and the runner of each
  extension point as an operator: given the code every configured plugin would
  answer, which of them run and what comes of it. The extenders likewise.
- **GenericScheduler**: scheduling and binding cycles over several profiles.
  The search has its workers: a worker takes a chunk of pieces (`TakeChunk`),
  looks at the context before each (`CheckStop`), runs the filters
  (`CheckNode`), and increments the counter and writes its slot, or gives the
  place back and cancels (`PlaceNode`). `SearchEnds` moves nextStartNodeIndex by the
  nodes counted. Extenders follow one at a time, then scores and selectHost, Reserve,
  Permit, and the binding goroutine's WaitOnPermit, PreBind and Bind with every
  failing exit. The number of nodes may differ from cycle to cycle.
- **PluginTypes**: pods and nodes as the plugins see them.
- **PodTopologySpread**: the pre-filter state with its two critical paths per key,
  updateWithPod, Filter; PreScore, Score and NormalizeScore. A map that Go walks
  in any order gives a set of possible states.
- **InterPodAffinity**: the three maps of the pre-filter state, their updates and
  Filter; the score map and its normalisation.
- **NodePlugins**: requests and host ports as NodeInfo keeps them, and the filters
  and scores that judge a node by itself: resources (fit, least, most and balanced
  allocation, requested-to-capacity ratio), ports, disks, name, selector,
  schedulability, images, taints, node affinity, selector spread.
- **Preemption**: one cycle through these plugins, in the order of the default
  provider, and PostFilter: eligibility, the nodes where preemption may help,
  a dry run per node (take all lower pods off, check, reprieve one by one),
  the choice of a candidate by its six criteria and the deletion of victims.
- **ClusterState**: `ClusterState` of the recommender, one action per operation;
  the recommender calls them from one goroutine, so what varies is their order.
  Aggregations have identity: `store.map`, each VPA's `store.uses` and a
  container's `aggregator` hold references, and an aggregation that is no longer
  referred to is free to be made again. A new container has the `Proxy`, which
  looks its key up at every use and makes what is missing; a label change gives it
  the aggregation itself. A memory window is whether it was opened and its peak,
  and an aggregation keeps for each container how often a peak of its current
  window was added less how often it was subtracted. `moved` is a history
  variable: the containers whose window began on another aggregation.
- **Recommender**: the process. The loop is start-up (LoadVPAs and
  InitFromCheckpoints) and then RunOnce's passes in their order; each pass is an
  action, StoreCheckpoints one per VPA and container. `streams` are OOMs on their
  way from the pod informer and from the watch of evictions, which send to
  `channel` from their own goroutines. `Crash` is possible between any two steps.
  A histogram is the bag of its peaks, so that "counted twice" and "lost" can be
  told apart. The maps of the code (aggregations, restored states, containers,
  checkpoints) are functions on the keys they have. The links between containers and
  VPAs are ClusterState's subject and fixed here.
- **Histogram**: two decaying histograms with AddSample, SubtractSample, Merge and
  a checkpoint written and restored, beside the bag of samples each stands for.
  Weights are whole numbers over a unit, so the arithmetic is exact.
- **Estimators**: the three bounds of a recommendation as CreatePodResourceRecommender
  stacks the estimators.
- **SchedulerCacheProofs**, **SchedulerProofs** (the queue's, too),
  **WaitingPodsProofs**, **GenericSchedulerProofs**, **PreemptionProofs**,
  **ClusterStateProofs**, **RecommenderProofs**, **EstimatorsProofs** (the
  histograms', too): the theorems.
- **MC\*** modules and the `.cfg` files: the instances.

An operator whose comment begins "Mutant:" is a plausible mistake in the
operation that follows it; no specification uses it. `PROJECT.json` says which
property finds it when it takes the operation's place.

### What is abstracted

Scheduler:

- Timestamps of the queue: `GetPodPriority` is constant in this repository, so
  only which of two pods is older decides; the relation `older` is kept. Backoff
  is ahead or over; its length, and the attempt counter behind it, is not kept.
- `schedulingCycle` and `moveRequestCycle`: the second is only ever set to the
  first and compared with it, so one bit says whether they are equal (`moved`),
  and one per worker what its comparison will yield (`moveSeen`).
- The node tree: `GetZoneKey` is constant, so there is one zone and
  `nodeTree.updateNode` returns at once; the tree is a set.
- In Scheduler, plugins and algorithm are choices: any pod may fit any node or none,
  every extension point may fail, a PostFilter plugin may nominate any node.
- `assume` is one step: nothing that reads the nominator can tell AssumePod and
  DeleteNominatedPodIfExists apart.
- Handlers of volumes, claims, services, CSI nodes and storage classes only call
  MoveAll: they are the step NodeMoves.
- The error function's RemoveNode for a NotFound error is left out: `AsError`
  and `fmt.Errorf` keep only the text of every error that reaches it.
- Queue.Close and the start-up of the scheduler are not modelled. A pod name is
  used once.

A scheduling cycle:

- What a plugin answers is a choice among `FilterCodes` and `Scores`; MaxInt64, the
  bound of NewFramework's check, is `MaxTotalScore`. Scoring in parallel is one
  step: the workers write different places. Metrics, and the decoding of plugin
  arguments, are left out.
- `GetPodPriority` and `getPDBLister` are stubs that return 0 and nil. Their callers
  are written for any priorities, so `Priority` is a constant of Preemption;
  disruption budgets are not modelled. With the stub as it is, no node has victims.
- `nodeMatchesNodeSelectorTerms` is a stub that matches no node, the filter of
  TaintToleration lets every node pass, and the scores of TaintToleration and
  NodeAffinity ignore tolerations and terms: modelled as they are.
- The dry runs of different nodes work on copies and are taken one after the other.
- Floating point is replaced by exact fractions. The logarithm of topologyNormalizingWeight
  is a table in thousandths, the constant `Logarithm`; the run has its values for up to
  three domains.

Recommender:

- ClusterState: one namespace; a selector is the label sets it matches; an
  aggregation has no CPU samples, recent ones, or has expired; whether a memory
  sample lies in the current window, and whether it came from RecordOOM, is a choice,
  and a sample that is discarded is no step. Policies and conditions are left out.
- Recommender: each container has its own name, aggregation and VPA; time is counted
  in ticks. UpdateVPAs only writes statuses and is left out. The history provider
  is I/O.
- Histogram: times are multiples of the half-life, so every decay factor is a power
  of two; the linear bucket options and rounding of floating point are left out.

External, modelled from how `src/` uses it: the API server (a bind of a pending
pod succeeds, is refused, or succeeds and reports an error; a pod that is being
deleted is not bound), the informers (the store is ahead of the notifications;
handlers with different filters are notified by different goroutines, each in
order; states in between may be skipped), the recommender's API client: in `src/` the
listers, the metrics client, the selector fetcher and CreateOrUpdateVpaCheckpoint are
stubs, and what stands in the model is the API their callers are written for, each
call of which may fail.

## 3. Runs

| run | instance | what it shows |
|---|---|---|
| `cache` | 2 pods (one with affinity), 2 nodes, 1 image, no new work past generation 5 | NoFatalBranch, StoreExact, SnapshotCopies, KeptWhileBinding, SnapshotRecovers, and that the cache implements CacheInterface (ImplementsInterface) |
| `queue` | 3 pods, 2 nodes, any caller | OnePlace, NoMissedWakeup |
| `scheduler` | 1 pod, 2 nodes, 1 binding goroutine, all events | TypeOK, NoPodLost, NoLostMove, CacheConverges |
| `scheduler_live` | 1 pod, 1 node, 1 binding goroutine, all events, fairness | Retried, DeletedLeaves, AssumptionsEnd |
| `scheduler_bound` | 1 pod, 1 node, 1 binding goroutine, fairness | *violation* of BoundNotRetried: a bound pod is tried for ever |
| `waiting_pods` | 1 pod, 2 cycles, 2 plugins, 1 call under way, no stalls, fairness | AnswersRespected, MapExact, NoDeadWait, WaitEnds |
| `generic` | 2 pods, 2 profiles, 0, 3 or 4 nodes, 2 workers, 2 plugins that filter and score, 2 extenders | SearchExact, NoErrorLost, NoFalseUnschedulable, HostJustified, ReservationsMatch |
| `preemption` | 3 nodes in 2 zones, 11 pods, 7 of them incoming, all placements and nominations the constants allow | DryRunExact, VictimsJustified, MoreImportantSpared, BestCandidate, ScoresInRange |
| `cluster` | 2 pods, 1 container name, 2 label sets, 1 VPA with 2 selectors that overlap, usages 0 to 2 | VpaBooksExact, NoStrayWrite, OnePeakPerWindow |
| `recommender` | 1 VPA and container, 3 ticks, windows of 2, usages 0 to 2 or no sample, late samples, 1 OOM or eviction, 2 faults | OnePeakPerInterval, OOMCounted, HistoryKept |
| `recommender_live` | 2 VPAs, 3 containers, a channel of 1, 2 OOMs, 1 fault, fairness | CheckpointsGoOn, ObserverUnblocked |
| `histogram` | 2 histograms of 3 buckets, 3 values, times 0 to 2, 5 operations | PercentileExact, BoundsExact, BoundsOrdered |

**Bounds.**

`cache`: `MaxGeneration` stops the operations that bring new work (assume, add,
update); the ones that finish work never stop, so there is no artificial
deadlock. Five generations are enough for a node and a pod to come, the pod to
move to another node and a node to come back; what lies beyond is covered by the
proofs, which have no bound.

`scheduler`: the state is finite without a counter, since a pod's trail has at most
four entries. One binding goroutine and one pod already give the overlap that
matters, the loop trying a pod whose previous attempt is still in its binding
goroutine. Several pods meet in activeQ's order, in the cache, which is the `cache`
run, and in `moveRequestCycle`; the proofs of Scheduler have any number of them.
Nominations are switched off here (`Preemption = FALSE`); the `queue` run has them,
under any callers.

`waiting_pods`: the number of cycles bounds the behaviour: two are enough for a late
call or timer of an ended cycle to meet the next, and two plugins for an Allow that
is not the last; timers race with the call under way and with each other without a
bound. The system may stop once the cycles are used up.

`generic`: with `PercentageOfNodesToScore = 50` and a minimum of 2, of 3 and of 4
nodes 2 are wanted, so that workers overshoot; two workers are enough for a slot to be
taken beyond the wanted number. An index kept from 4 nodes meets 3 nodes. One profile
has all plugins and the other none, which is the path without filters; a second
configuration is refused for its weights. It stops when all pods are bound.

`preemption`: the seven incoming pods between them use every filter and score, one of
them spreads by a key that a node lacks; the pods
on the nodes have priorities -1 to 1, one is terminating, one has anti-affinity, two
meet in a port and a disk. A cycle ends, so the run stops by itself.

`cluster`: three references of aggregations are enough for those of both keys and one
that only a relabelled container still holds; `Metered` limits memory samples to one
pod, since windows of two containers do not touch each other's peaks; three usages
give the peak of zero, which the code never replaces, and one peak that grows.
Overlapping VPAs are covered by the proofs.

`recommender`: a window of 2 ticks and 3 ticks of time give two windows and a sample
late enough for the first; two faults give a crash during what follows another fault,
and two restarts. No sample, and usages of 0, 1 and 2, give the peak of zero, peaks that
grow, and peaks below and at what the first OOM asks for. With one event a process hears of
an eviction twice only over a restart; the theorems have any number of events.
`recommender_live` has several, and no samples (`Metered` is empty), which have no part in
its properties: two VPAs, one of two containers, and time for one checkpoint only, so that
order and the failed save of another container matter; a channel of 1 stands for 5000.

`histogram`: five operations allow add, add, subtract or merge, save and restore, and
add again; weights of 3 halve below the epsilon of 1 after two half-lives, and the
reference moves after one.

Symmetry is used in safety runs only, over sets no constant tells apart.

**Fairness.** In Scheduler weak fairness for the loop, the goroutines of bindings
(permit waits have a timeout, the bind call returns), the informer's goroutines, the
handlers, the two flush timers, the cache's sweep, and time. In WaitingPods for
binding goroutines and timers. In Recommender weak fairness of the restart, of the
loop and of the observer's sources, and strong fairness of saving each container's
checkpoint: the API server does not refuse one for ever that is tried again and again.
Nothing is assumed of users, of other schedulers, of callers of Allow and Reject, of
whether a pod fits, or of whether a bind succeeds.

### What a reader of the code should know

Behaviour the models have, that no property forbids:

- *Search.* A worker that stalls may leave a node out while nextStartNodeIndex moves
  past it; a node found beyond the wanted number is counted neither as feasible nor as
  refused. The search stops at the wanted number, and if the extenders then refuse all
  of those, the pod is reported unschedulable although nodes that were not examined may
  fit: NoFalseUnschedulable says exactly that much.
- *Weights.* `pluginsNeeded` keeps one entry per plugin name, that of the last
  extension point; a plugin enabled for a later point than `score` loses the weight
  given there. NewFramework's overflow check covers the plugins' scores and not what
  extenders add to them.
- *Spread.* Terminating pods are left out of the counts but not of updateWithPod;
  SpreadDryRunExact leaves those dry runs out.
- *Preemption.* A delete that fails midway leaves the earlier victims deleted and
  nominates nobody.
- *Checkpoints.* A failed save counts against minCheckpoints. What checkpoints hold
  is lost when the VPAs or the checkpoints cannot be listed at start-up, or when a
  VPA's selector cannot be fetched once: its VPA is made anew without them, and the next
  checkpoint replaces the old one (`forgotten`).
- *OOMs.* The watch of evictions reports old ones again after a restart and after it is
  opened again. OOMs are drained after samples were loaded, and one older than the
  window is dropped. One in a window that a sample of no memory began is accepted and not
  added (Disagreement 10). When pods cannot be listed, LoadPods removes all of them with
  their windows (`disturbed`).

### Finding

`scheduler_bound`. scheduler.go:486-488 says Error "will check if the pod has been
bound to a node and if so will not add it back ... (otherwise this would cause an
infinite loop)". Error (factory.go) only checks that the pod is in the lister. After a
bind that took effect and reported an error, with the pod's deletion from the queue
already handled, the pod goes round for ever: tried, refused by AssumePod, put back.

### Disagreements

Other places where the models show the code to differ from a comment, or a property to
need an exception. Each is visible in the model; none has a run of its own.

1. *Stale node list.* interface.go:83 says UpdateSnapshot brings the snapshot "to
   the current contents of Cache". The list of nodes is rebuilt when a node is new
   to the map, an entry is deleted, or the *numbers* of nodes differ
   (cache.go:239-241). An entry is deleted only if the snapshot has more of them than
   `cache.nodes`, where ghosts count, so the old copy of a ghost stays behind. When
   that node returns while another becomes a ghost, both numbers are equal, and the
   list keeps the deleted node. SnapshotRecovers states what holds.
2. *Nomination after deletion.* A pod deleted while it is being tried is nominated
   after the queue's Delete (scheduler.go:312), and nothing removes the
   nomination; the map's comment says these pods "can be in the activeQ or
   unschedulableQ" (scheduling_queue.go:709).
3. *Subtraction after a label change.* "The subtracted sample should be equal to some
   sample that was aggregated with AddSample() in the past"
   (aggregate_container_state.go:29). When a pod's labels change within a memory
   window, its container writes to another aggregation (cluster.go:120); a larger
   sample then subtracts the old peak there (container.go:146). The old aggregation
   keeps the peak, and the new one's total weight shrinks by a sample it never had. The
   same happens to a proxy whose aggregation was collected and made again within the
   window. OnePeakPerWindow leaves out windows that were moved.
4. *Restored bounds.* LoadFromCheckpoint takes over every bucket a checkpoint names
   (histogram.go), also one whose share of the total weight is below epsilon. minBucket
   is then no longer the "Index of the first non-empty bucket" (histogram.go:83-87):
   IsEmpty looks at that bucket and says that the histogram is empty, and Percentile
   answers 0. BoundsExact leaves restored histograms out, PercentileExact those with
   weights below epsilon.
5. *Spread's nil dereference.* updateWithPod increments the count of the node's pair
   through a pointer (filtering.go:123) that is missing when no node of that pair passes
   the incoming pod's selector; nominated pods and victims on such a node get there.
   The comment at filtering.go:216-217 says why such nodes have no count: "spreading is
   applied to nodes that pass those filters"; updateWithPod does not ask. The model has
   the outcome as FilterPanics and TakeOffPanics, and the `preemption` run reaches
   both.
6. *Shared host ports.* HostPortInfo is a set (types.go:671). When two pods of a node
   use one port, removing one frees it. VictimsJustified and MoreImportantSpared leave
   such nodes out.
7. *Extender answers.* "The filtered list is expected to be a subset of the supplied
   list; otherwise the function returns an error" (extender.go:254-255): that is checked
   of names and not of node objects, which are taken as they come. In the model only
   lists of names may hold a node that was not sent.
8. *Empty victims.* pickOneNodeForPreemption reads `victims.Pods[0]`
   (default_preemption.go:371). A node that fits without victims reaches it only when an
   extender refused it. Preemption has no extenders, and there every candidate has a victim
   (`CandidatesOK`, proved).
9. *Stalled binding goroutines.* With `Stalls = TRUE` and three cycles AnswersRespected
   fails: the map of waiting pods is keyed by the pod and not by the cycle. A goroutine
   whose bind failed stalls before ForgetPod for longer than the ttl; the assumption
   expires and a second cycle of the pod waits; the late ForgetPod drops the second's
   assumption, since it compares only the node; a third cycle's entry replaces the
   second's in the map, and the second's deferred remove deletes it. The third finds no
   entry and binds. It takes a stall of 30 s at one point, and a pod chosen for the same
   node; the run and the theorems assume that this does not happen.
10. *Peak of zero.* "If the timestamp of the current sample is earlier than the end of the
   current interval (WindowEnd) and is larger than the current peak, the peak is updated in
   the aggregation" (container.go:131-134). A sample of no memory is valid
   (container.go:66), and one that opens a window leaves a peak of zero; container.go:138
   takes a peak of zero for no peak and updates nothing, until the next window. No
   later sample of the window counts, and no OOM either, though RecordOOM, which "adds info
   regarding OOM event in the model" (container.go:176), returns no error. OOMCounted, and
   with it `OOMsCount`, leaves out windows whose peak is zero (`Counts`); the `recommender`
   run reaches them, and without that case TLC finds OOMCounted violated there.

## 4. Proofs

All proofs are for any sets of pods, nodes, workers, containers and so on, and any
bound. They assume that the "absent" values are not members of the sets they extend,
and of the constants what the modules that declare them state. TLC evaluates every one
of these assumptions in the runs:

- GenericScheduler: the smallest percentage of nodes is at most 100 (it is 5 in the code),
  there are finitely many workers, a configuration has a list of plugins for each extension
  point (`ConfigAssumption`), and weights and scores are integers (`ExtenderAssumption`).
- PluginTypes, InterPodAffinity: pods, nodes and the terms of a pod are finitely many
  (`PodsAssumption`, `LabelsAssumption`, `TermsAssumption`). No label value is empty: Go
  reads a label that is missing as the empty string, and the critical paths begin with
  it, so with an empty value a path that is set would look like one that is not. The weight
  of a hard affinity term is not negative, and weights of terms are integers
  (`WeightsAssumption`).
- PodTopologySpread: no two hard constraints of a pod have one key and a skew is an integer
  (`ConstraintsAssumption`); a skew of soft ones is at least 1, and the table of logarithms
  has natural numbers (`SoftAssumption`). The API server refuses other constraints, and
  `ValidatePodTopologySpreadArgs` such defaults.
- NodePlugins: what nodes have and pods ask for is not negative (`AmountsAssumption`). The
  weights of resources are positive, the points of a shape are in order and within 0 and 100
  (`ScorersAssumption`, checked by `ValidateRequestedToCapacityRatioArgs`). Every pod has a
  container, and sizes of images, numbers of taints and weights are not negative
  (`ImagesAssumption`).
- Preemption: priorities are integers above the offset that SumPriorities adds (in the
  code, an int32 and MaxInt32 + 1: `OffsetAssumption`), and the incoming pods are pods
  (`CycleAssumption`).
- Histogram, Estimators: the options are positive, the exponential ratio is at least 2,
  samples have positive weights and finitely many values (`SamplesAssumption`),
  percentiles are fractions above 0 and at most 1, in their order
  (`PercentilesAssumption`, `EstimatorAssumption`), and the last bucket with its margin, and
  the minimum, are at most MaxResourceAmount (`CutOffAssumption`: 1e12 bytes and 1e6
  millicores against 1e14).
- Recommender: there are finitely many VPAs (they are sorted), and windows, the
  channel and time are not empty.

Induction. An induction theorem that takes a predicate cannot be used with these provers,
and a fold or a sum over data needs one. GenericSchedulerProofs, EstimatorsProofs and
PreemptionProofs therefore state induction with a set in place of the predicate: a set
of subsets that has the empty set, and with a subset also the subset and one element
more, has every subset of a finite set (`FiniteInduction`; `SubsetInduction`,
`DescentInduction` and `NumberInduction` are variants). They follow from the
well-foundedness of the strict subset relation in the library. That a recursive function
of the model, a fold of the community modules or a sum exists and follows its rule is
shown with them, by building it on ever larger subsets.

**SchedulerCacheProofs.** `CacheInvariant` is `Spec => []CacheInv`. CacheInv
adds to the properties what they need to be inductive:

- the store's structure: the list has the keys of the map, each once, in strictly
  falling generation, all at most the counter. `TouchedOK` and `DroppedOK` show
  that the two ways of changing the store keep it, from `UnlinkedOrder`, and
  `AddPodEffect`, `RemovePodEffect`, `SetNodeEffect` and `RemoveNodeEffect`
  say what the four functions do to counts, node objects and generations;
- Placement, with which removePod never fails where it is called, so RemovePod,
  ForgetPod and the sweep never take their error branch;
- AssumedAreKnown, WatchMirrored and FinishedHasDeadline together: AddPod clears
  a deadline and takes the pod out of assumedPods in the same step, which is why
  the sweep meets no nil;
- keys still to be visited by a sweep are assumed;
- image states list exactly the nodes that exist;
- SnapshotExact and the exactness of the affinity list: they need ListSorted (the walk
  stops early) and that every change takes a generation above the snapshot's
  (`SnapKept`), so an unvisited node is one that has not changed.

There is one lemma per action and `NextInv` combines them. `CacheNoFatalBranch`,
`CacheStoreExact` and `CacheSnapshotCopies` follow, and the action properties
`CacheKeptWhileBinding` and `CacheSnapshotRecovers` use CacheInv in the state before
the step. `CacheImplements` maps each action to a step of CacheInterface or a stutter.

**SchedulerProofs.** First the queue by itself: `QueueInv` is the type invariant, the
disjointness of the sub-queues, NoMissedWakeup and the agreement of the nominator's maps,
kept by every operation in any order (`QueueOnePlace`, `QueueNoMissedWakeup`).
Disjointness is what lets Delete and Update stop at the first sub-queue that has the pod.

Then the scheduler, with three kinds of results. First, Scheduler uses its parts as they
were specified: every step is an operation of the queue or leaves it alone
(`SchedulerUsesQueue`), which carries `QueueOnePlace` over, and every step is one
of CacheInterface or leaves the cache alone (`SchedulerUsesCache`). Second, nothing gets
lost between them (`SchedulerNoPodLost`, `SchedulerNoLostMove`). Third, what the cache
has added is what its handler was last told, whatever goroutines assume, forget or let
expire meanwhile (`SchedulerCacheFollowsWatch`), and `SchedulerCacheConverges` follows.
The invariant adds to these

- WorkerOK, TrailOK, Told: a worker beyond `idle` has a pod, and one that has assumed
  has a node; handlers are behind the informer's store, and a pod not bound yet never
  was; the queue's handler was told of everything that is queued or held;
- AssumedOK: an assumed pod is held by the worker that assumed it, or its binding has
  finished and the pod was bound. This is why the late ForgetPod of one goroutine and
  the sweep cannot take away what another has assumed, and why skipPodSchedule may drop a
  pod that is assumed;
- BoundOK: where a bind has succeeded, the pod is not pending any more;
- OutdatedOK, which is NoLostMove with what it needs: a pod the cluster has changed for
  is queued outside unschedulableQ, or it is on its way and the change is recorded for
  it (`moved`, or `moveSeen` of the worker that has compared already), or a handler is
  about to call MoveAll.

`WorkerStep`, `PodStep` and `HandlerStep` say once who may change what, so that the
proof of each part looks only at the actions that can disturb it. The proof corrected
NoLostMove: a pod bound by another client whose deletion from the queue was handled
before a binding goroutine put it back may rest in unschedulableQ over any change.
It takes a second pod to get there, so the run with one did not show it; NoLostMove
is about pods that still are to be scheduled.

**WaitingPodsProofs.** For any number of pods, cycles, plugins and calls, and
`~Stalls`. WaitingInv adds to the properties: the cache keeps the cycles of a pod
apart (`OneCycle`, where `~Stalls` is used); nobody holds a call or a timer for a
waitingPod not yet made (`UnmadeUnknown`); a cycle waits on its own waitingPod
(`OnOwn`); a success in the channel means that no plugin is left, and a vetoed
waitingPod that is not answered has its rejection in the channel (`Answers`); as
long as there is no answer, every plugin left has its timer (`TimersLeft`). The
last two are why a non-blocking send into a channel of one loses nothing that
matters: what it drops is a second answer. `WaitingAnswers`, `WaitingMapExact` and
`WaitCanEnd` follow.

**GenericSchedulerProofs.** For any number of nodes, workers and pods, whatever the
plugins and extenders answer. While the filters run the invariant is SearchInv, over
the positions the workers have taken:

- ChunksOK: the chunks of different workers do not overlap, and nobody is done before
  the end or a stop;
- CounterOK: the counter exceeds the wanted number by exactly the workers that have
  incremented it too far and have not given the place back. So it is right when they are
  done, although it is read and corrected in two atomic operations;
- SlotsOK: a slot up to the counter is written or owed by the one worker that has its
  number. Without it a decrement could let two workers write one slot;
- PlacedOK and ExaminedOK: each slot has a node of its own, since different
  positions below n are different nodes from any nextStartNodeIndex on (`ModInjective`,
  `ModOnto`); before a stop every finished position has led to a slot or a status;
- StopOK: a stop has a reason, an error or enough nodes.

`SearchResult` gives SearchExact from these when all workers are done, and
`WantedInRange` that numFeasibleNodesToFind asks for at least one node and at most all.
CandidatesOK follows the nodes through extenders and scores to the host
(`FitErrorsAreJustified`, `HostFitsPod`); ReserveOK the reservations through every exit
of both cycles (`ReservationsFollowPods`).

HostJustified also says that no other candidate has a greater sum of scores. The sums
over lists of plugins and extenders are folds; `HostIsJustified` shows that what
prioritizeNodes adds up plugin by plugin and extender by extender is the sum by the
configured weights, and that selectHost takes one of the largest. It assumes
`WeightsKept`: the framework's weight of each score plugin is the configured one. That
is a matter of the configuration and not of the cycle (see *Weights* above: a plugin
enabled for a later point than `score` loses its weight), and the run's configurations
keep it.

**PreemptionProofs.** For any pods, nodes, labels, terms, constraints and priorities.
`DryRunInv` is the invariant of the cycle:

- CycleOK, StateOK: who is placed and who is nominated are different pods, and the
  pre-filter state is one that PreFilter can compute from the snapshot;
- DryRunOK: in a dry run every pod of the node is still on it, taken off or a victim, none
  of those to put back makes updateWithPod panic, and the copies of the two plugins'
  states are what the pods now on the node call for;
- VictimsOK: victims are lower pods of their own node, also while they are deleted.

*Affinity* (`AffinityDryRuns`). An entry of a map is the number of terms of pods that
have it, and an entry of zero is absent (`Maps`, `Entry`, `IsTallies`): a pod added
or taken off changes each entry by its own terms, so the maps of a dry run are those
counted afresh, entry by entry. The first-pod rule of satisfyPodAffinity reads whether the
map is empty, which is why the absence of zero entries matters.

*Spread* (`DryRunsExact`). Of each key only two pairs are kept, the critical paths. After
any walk over the pairs, in the map's order, they are `PathOK`: the first has the lowest
number of all (`PathsAfterWalked`). What `Update` keeps of that from then on is less: the
second path need not be the second lowest after several updates. `Tracks` is what
suffices, and it is about one node: all updates of a dry run are for one and the same
pair of each key, and the first path's number is the lowest while no other pair changes
(`UpdateInStates`, `UpdateTracks`). Filter reads no more than that (`FilterAccepts`,
`SameVerdict`). The numbers themselves follow the pods, if no terminating pod moves
(`AddTracks`, `CountsMoved`), so that both states judge alike.

*Victims* (`VictimsAreJustified`, `ImportantAreSpared`). `Good(n, pods)` is that the
incoming pod passes the filters on n with exactly these pods, with and without the nominated
ones. It need not pass with fewer pods whenever it does with more: a pod that goes may be
the one an affinity term asks for. What holds is that sets between two good ones are good
(`GoodBetween`): the filters that pass with more pods pass with fewer (for spreading that is
`FewerJudged`: the node's own count falls at least as much as the lowest), all but the
affinity terms' filter, and that passes with more when it passes with fewer (`MorePods`).
`VictimsInv` carries the argument through a dry run:

- FailedOK: on every node the filters refused the pods that are there;
- TakenOK: the copy of the NodeInfo has the sums and ports of the pods still on it;
- ReprieveOK: what is to be put back is less important than what was; the pods now kept are
  good, and each victim is `Stuck`: with some pods that are not lower the incoming pod fits,
  and with the victim besides it does not. The set that shows this is the one the reprieve
  was refused with, and it stays in the invariant because later pods are kept beside it;
- CandidatesOK: the same when the dry run is over, and no candidate is without victims,
  for the node with all of its pods was refused.

A victim that is Stuck cannot stay with any good set that has those pods: by GoodBetween the
pods that showed it would otherwise have been good with it. Nodes where two pods share a
port or one is terminating are left out (`Neat`), as in the properties.

*Choice* (`CandidateIsBest`). The four criteria are minima of sums over the victims; the
candidate that is left has no higher victim than another, and no other asks only for part
of its victims. The earliest start time is that of a victim, and every candidate has one.

*Scores* (`ScoresAlwaysInRange`). The scores are made once, for a pod and a snapshot that
do not change in the cycle (`ScoresMade`). Each scorer is bounded by itself: a weighted
mean of scores is a score (`MeanIsScore`, from `SumOfWeighted`), a broken line stays between
its points although Go divides towards zero (`LineIsBetween`), and the normalisations divide
by what no node exceeds (`NormalizedIsScore`, `SelectorIsScore`, `AffinityIsScore`). For
spreading, a smaller raw score has a larger quotient (`SpreadIsScore`), whatever the table
of logarithms.

`PreemptionTakesLower` is that preemption takes pods of lower priority only, of the
nominated node only.

**ClusterStateProofs.** For any finite set of pods and any containers, label
sets, VPAs, selectors and references. The pod count needs only types and
itself (`CountInv`): `PodChange` says how the number of matching pods
changes with one pod. The rest follows from ClusterInv, which adds:

- an aggregation is in the map under one key (`StoreInv`), without which a
  relabelled container could hold that of two keys; `StoreInv` is a predicate of a
  store and the selectors, so that `CreatedOK`, `ReclaimedOK`, `ForgottenOK`,
  `UnlinkedOK` and `LinkedOK` each say what one operator does to any store;
- containers are in pods and only containers have windows (`Owned`), so the
  proxy's key always exists;
- a window that was not opened has no peak anywhere, and a proxy that was not moved
  finds an aggregation in the map (`WindowOK`): a collection that would take it
  away makes the container one that was moved.

`Bystander` covers every container an operation leaves alone: new aggregations are
references nobody held, and what is reclaimed nobody holds. What remains per action
is the container it is about. `VpaBooks` (count, links and autoscaled aggregations),
`NoStrayTheorem` and `OnePeakTheorem` are the results.

**RecommenderProofs.** For any containers, any finite set of VPAs and any number of
faults. A histogram is reasoned about by the copies it has of each peak
(`CopiesInMerge`, `CopiesInRest`, `CopiesInPeak`). Every sample, ordinary or OOM, has one
of three effects on its container (`SampleEffect`): none, the peak of its window is
replaced by a larger one, or a window is opened; a peak of zero is never replaced
(`ZerosKept`). The parts of the invariant are shown
once per effect (`EffectCovers`, `EffectStays`, `EffectSpread`) and then per action:

- StagesOK and KnownOK: memory is empty before the restore, checkpoints to be written
  are of containers in the model, and VPAs with restored or saved history are known;
- WindowsOK: the peak of the window a container is in is in its aggregation, and the
  window did not begin in the future;
- OOMsOK: OOMCounted, for containers in the model. A peak that counts is kept: it is
  covered by a larger one, or it is zero and stays;
- HistoryOK: every saved peak, or a larger one of its window, will be in the next
  checkpoint (`Held`): it was restored, or is not of the current window, or that window
  had ended when the last checkpoint was written. The last case is the point: a
  checkpoint leaves the current peak out only if the window is still open, so a peak
  that was once saved is not left out later. `HeldIsSaved`, `SavedIsHeld` and `SaveCovers`
  are the step from one checkpoint to the next, `CheckpointsKeepHistory` the result;
- SpreadOK: peaks are an interval apart, one copy each; what was saved or restored ended
  before the time of the checkpoint, and all others before the open window. So the
  window that begins after a restart cannot meet a restored one (`PeaksDoNotOverlap`).

`OOMsCount` follows from OOMsOK.

**EstimatorsProofs.** First the histograms. `HistogramInv` is that weights and totals are
natural numbers, that the bounds are buckets, and that those of a histogram with nothing
restored are exact: `Within`, every non-empty bucket is between the bounds, and the
bounds themselves are not empty or stand for an empty histogram. Addition, subtraction
with its two scans, merge, decay and the shift of the reference keep it each
(`HistogramStep`); restoring a checkpoint does not, which is why `rounds` is in it.
`HistogramBoundsExact` follows.

Then what a percentile says of the samples (`PercentilesExact`), with `SamplesInv`: each
histogram that is not lossy is `Sound`, that is its bounds are exact, it has no weight
below epsilon, and it stands for its samples (`Stands`):

- its total is the sum of its weights, and at the reference time that is what its
  samples weigh, exactly;
- the weights of its first n buckets, for every n, are what the samples in them weigh,
  up to a share of rounds * NumBuckets / MaxCheckpointWeight of what was restored
  (`Near`, `Represents`);
- no bucket weighs less than its samples that were not restored, which is why taking
  one of them back never cuts a weight off at zero (`HistSubtractSampleStands`);
- a histogram that no sample has moved the reference time of has none.

The sum over the first n buckets, and not a bucket by itself, is what stays bounded when
rounding moves weight from bucket to bucket: `RepresentsRounded` shows that one more
checkpoint adds one NumBuckets / MaxCheckpointWeight. Sums add up and scale
(`UptoPlus`, `UptoTimes`), so that shifts of the reference time, changes of the unit,
samples and merges keep it (`FinerStands`, `ShiftStands`, `HistAddSampleStands`,
`HistMergeStands`, `CheckpointSound`; `SamplesStep` has all of them). `StopBucket` then says
where Percentile stops, `BelowStart` that a value is below a bucket's start exactly if it is put
into an earlier bucket, and `EnoughBelow` and `NotEnoughBelow` carry the weights of the
histogram over to those of the samples. TLC found SamplesInv to hold in every state of
the `histogram` run. The rounding of floating point is in neither.

Then the estimates (`EstimatesOrdered`), of every histogram of that type: a larger
percentile is found in the same or a later bucket, later buckets start higher (the start
is a power of the ratio: an induction), the margin and the two confidence multipliers
keep the order, and so do the minimum and the cut-off. The order of the percentiles is
shown of the walk that Percentile does, for restored and for faint histograms, too.

**Only model-checked.** Liveness: Retried, DeletedLeaves, AssumptionsEnd, WaitEnds,
CheckpointsGoOn and ObserverUnblocked need fairness and ENABLED, which the prover
does not have. Every invariant and every action property of the passing runs is a theorem.

## 5. Not modelled

- The heap under the queues (`internal/heap`): used as an ordered set; beneath it is the
  standard library's. Metrics, caches of metrics and helpers: the scheduler reads none
  of their state.
- Configuration: defaults, conversion, deep copies, decoding of plugin arguments, the
  tables of plugin names (`legacy_registry.go`) are generated or sequential start-up
  code. Of it only the default order of plugins, the checks of NewFramework and of the
  profiles are modelled.
- Plugins outside the default provider's core: service affinity, node label, volume
  zone, limits and binding. They are functions of labels and of volume listers.
- Disruption budgets and CallExtenders of preemption: the lister is a stub that
  returns nil, and ProcessPreemption is a call to another process.
- The history provider and the fetchers of targets: I/O. The autopilot's loop repeats
  the recommender's calls.
- `learn`, `profil`, experiments: numeric code on files, random numbers, databases.

## 6. Plan

The step `PermitFails` of Scheduler split along WaitingPods.
