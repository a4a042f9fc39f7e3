-------------------------- MODULE SchedulerProofs --------------------------
(***************************************************************************)
(* Proofs about SchedulingQueue and Scheduler.  Whatever its callers do, a *)
(* pod is in at most one sub-queue, Pop never sleeps over a pod of activeQ *)
(* and the two maps of the nominator agree.  The loop, the binding         *)
(* goroutines and the handlers use the queue and the cache as their own    *)
(* specifications say, no pod is lost between them, no change of the       *)
(* cluster is missed, and the cache follows the watch.                     *)
(***************************************************************************)
EXTENDS Scheduler, TLAPS


-----------------------------------------------------------------------------
(* The nominator.                                                          *)

Agrees(nom) ==
    /\ nom \in Nominator
    /\ \A p \in Pods, n \in Nodes :
          p \in nom.nominatedPods[n] <=> nom.nominatedPodToNode[p] = n

\* delete leaves the maps in agreement and the pod nominated nowhere.
LEMMA NominatorDeleteAgrees ==
    ASSUME NEW nom, Agrees(nom), NEW p \in Pods
    PROVE  /\ Agrees(nominatorDelete(nom, p))
           /\ nominatorDelete(nom, p).nominatedPodToNode[p] = NoNode
  <1>1. CASE nom.nominatedPodToNode[p] = NoNode
    BY <1>1 DEF nominatorDelete
  <1>2. CASE nom.nominatedPodToNode[p] # NoNode
    <2> DEFINE m == nom.nominatedPodToNode[p]
               pods == [nom.nominatedPods EXCEPT ![m] = @ \ {p}]
               toNode == [nom.nominatedPodToNode EXCEPT ![p] = NoNode]
    <2>1. m \in Nodes
      BY <1>2 DEF Agrees, Nominator
    <2>2. pods \in [Nodes -> SUBSET Pods] /\ toNode \in [Pods -> Nodes \cup {NoNode}]
      BY <2>1 DEF Agrees, Nominator
    <2>3. nominatorDelete(nom, p) =
            [nominatedPods |-> pods, nominatedPodToNode |-> toNode]
      BY <1>2 DEF nominatorDelete
    <2>4. ASSUME NEW q \in Pods, NEW n \in Nodes
          PROVE  q \in pods[n] <=> toNode[q] = n
      BY <2>1, NoNodeAssumption DEF Agrees, Nominator
    <2>5. toNode[p] = NoNode
      BY DEF Agrees, Nominator
    <2> HIDE DEF pods, toNode
    <2> QED BY <2>2, <2>3, <2>4, <2>5 DEF Agrees, Nominator
  <1> QED BY <1>1, <1>2

\* add leaves the maps in agreement, whatever the pod was nominated to before.
LEMMA NominatorAddAgrees ==
    ASSUME NEW nom, Agrees(nom), NEW p \in Pods,
           NEW nodeName \in NodeName, NEW nnn \in NodeName
    PROVE  Agrees(nominatorAdd(nom, p, nodeName, nnn))
  <1> DEFINE n == IF nodeName # NoNode THEN nodeName ELSE nnn
             d == nominatorDelete(nom, p)
  <1>1. Agrees(d) /\ d.nominatedPodToNode[p] = NoNode
    BY NominatorDeleteAgrees
  <1>2. n \in NodeName
    OBVIOUS
  <1>3. CASE n = NoNode
    BY <1>1, <1>3 DEF nominatorAdd
  <1>4. CASE n # NoNode
    <2> DEFINE pods == [d.nominatedPods EXCEPT ![n] = @ \cup {p}]
               toNode == [d.nominatedPodToNode EXCEPT ![p] = n]
    <2>1. nominatorAdd(nom, p, nodeName, nnn) =
            [nominatedPods |-> pods, nominatedPodToNode |-> toNode]
      BY <1>4 DEF nominatorAdd
    <2>2. n \in Nodes
      BY <1>2, <1>4 DEF NodeName
    <2> HIDE DEF d, n
    <2>3. pods \in [Nodes -> SUBSET Pods] /\ toNode \in [Pods -> Nodes \cup {NoNode}]
      BY <1>1, <2>2 DEF Agrees, Nominator
    <2>4. ASSUME NEW q \in Pods, NEW k \in Nodes
          PROVE  q \in pods[k] <=> toNode[q] = k
      BY <1>1, <2>2, NoNodeAssumption DEF Agrees, Nominator
    <2> HIDE DEF pods, toNode
    <2> QED BY <2>1, <2>3, <2>4 DEF Agrees, Nominator
  <1> QED BY <1>3, <1>4

\* UpdateNominatedPod deletes and adds, also when it keeps the nomination.
LEMMA NominatorUpdateAgrees ==
    ASSUME NEW nom, Agrees(nom), NEW p \in Pods,
           NEW oldNnn \in NodeName, NEW nnn \in NodeName
    PROVE  Agrees(nominatorUpdate(nom, p, oldNnn, nnn))
  <1> DEFINE k == IF oldNnn = NoNode /\ nnn = NoNode
                  THEN nom.nominatedPodToNode[p] ELSE NoNode
  <1>1. k \in NodeName
    BY DEF Agrees, Nominator, NodeName
  <1>2. Agrees(nominatorDelete(nom, p))
    BY NominatorDeleteAgrees
  <1> HIDE DEF k
  <1>3. Agrees(nominatorAdd(nominatorDelete(nom, p), p, k, nnn))
    BY <1>1, <1>2, NominatorAddAgrees
  <1> QED BY <1>3 DEF nominatorUpdate, k

-----------------------------------------------------------------------------
(* The inductive invariant: the types are needed for the nominator's maps. *)

QueueInv ==
    /\ QueueTypeOK
    /\ OneQueue
    /\ NoMissedWakeup
    /\ NominatorConsistent

Sets ==
    /\ activeQ \subseteq Pods /\ podBackoffQ \subseteq Pods
    /\ unschedulableQ \subseteq Pods /\ backingOff \subseteq Pods
    /\ older \subseteq Pods \X Pods
    /\ OneQueue

Flags == moved \in BOOLEAN /\ asleep \in BOOLEAN

\* The invariant in parts: sets, flags and the nominator go to different provers.
LEMMA QueueInvParts ==
    QueueInv <=> Sets /\ Flags /\ NoMissedWakeup /\ Agrees(nominator)
  BY DEF QueueInv, Sets, Flags, Agrees, QueueTypeOK, NominatorConsistent

\* The same of the next state.
LEMMA QueueInvPartsPrimed ==
    QueueInv' <=> Sets' /\ Flags' /\ NoMissedWakeup' /\ Agrees(nominator')
  BY DEF QueueInv, Sets, Flags, Agrees, QueueTypeOK, NominatorConsistent, Nominator

\* NewPriorityQueue establishes the invariant.
LEMMA QueueInitInv == QueueInit => QueueInv
  <1> SUFFICES ASSUME QueueInit PROVE QueueInv
    OBVIOUS
  <1>1. Sets
    BY DEF QueueInit, Sets, OneQueue
  <1>2. Flags /\ NoMissedWakeup
    BY DEF QueueInit, Flags, NoMissedWakeup
  <1>3. Agrees(nominator)
    BY NoNodeAssumption DEF QueueInit, Agrees, Nominator
  <1> QED BY <1>1, <1>2, <1>3, QueueInvParts

\* A pod's new timestamp relates pods.
LEMMA StampedType ==
    ASSUME older \subseteq Pods \X Pods, NEW p \in Pods
    PROVE  Stamped(p) \subseteq Pods \X Pods
  BY DEF Stamped

\* Add takes the pod out of the other two sub-queues and broadcasts.
LEMMA AddKeeps ==
    ASSUME QueueInv, NEW p \in Pods, NEW nnn \in NodeName, Add(p, nnn)
    PROVE  QueueInv'
  <1>1. Agrees(nominator')
    BY QueueInvParts, NominatorAddAgrees DEF Add, NodeName
  <1>2. Sets'
    BY QueueInvParts, StampedType DEF Add, Sets, OneQueue
  <1>3. Flags' /\ NoMissedWakeup'
    BY QueueInvParts, Zenon DEF Add, Flags, NoMissedWakeup
  <1> QED BY <1>1, <1>2, <1>3, QueueInvPartsPrimed

\* Update moves the pod out of the sub-queue that has it; it does not broadcast
\* for a pod that is in activeQ already, and then Pop does not sleep.
LEMMA UpdateKeeps ==
    ASSUME QueueInv, NEW p \in Pods, NEW oldNnn \in NodeName, NEW nnn \in NodeName,
           NEW updated \in BOOLEAN, Update(p, oldNnn, nnn, updated)
    PROVE  QueueInv'
  <1>1. CASE p \notin Queued /\ Add(p, nnn)
    BY <1>1, AddKeeps
  <1>2. CASE ~ (p \notin Queued /\ Add(p, nnn))
    <2>1. nominator' = nominatorUpdate(nominator, p, oldNnn, nnn)
      BY <1>2 DEF Update
    <2>2. Agrees(nominator')
      BY <2>1, QueueInvParts, NominatorUpdateAgrees
    <2>3. Sets'
      BY <1>2, QueueInvParts DEF Update, Sets, OneQueue
    <2>4. moved' = moved /\ (asleep' = (asleep /\ p \in activeQ) \/ UNCHANGED asleep)
      BY <1>2, Zenon DEF Update
    <2>5. asleep' => asleep
      BY <2>4, QueueInvParts, Zenon DEF Flags
    <2>6. Flags'
      BY <2>4, QueueInvParts, Zenon DEF Flags
    <2>7. ASSUME asleep' PROVE activeQ' = {}
      <3>1. activeQ = {}
        BY <2>5, <2>7, QueueInvParts DEF NoMissedWakeup
      <3>2. CASE UNCHANGED activeQ
        BY <3>1, <3>2
      <3>3. CASE ~ UNCHANGED activeQ
        <4>1. asleep' = (asleep /\ p \in activeQ)
          BY <1>2, <3>3, Zenon DEF Update
        <4> QED BY <2>7, <3>1, <4>1
      <3> QED BY <3>2, <3>3
    <2>8. NoMissedWakeup'
      BY <2>7, Zenon DEF NoMissedWakeup
    <2> QED BY <2>2, <2>3, <2>6, <2>8, QueueInvPartsPrimed
  <1> QED BY <1>1, <1>2

\* Delete only takes pods away.
LEMMA DeleteKeeps ==
    ASSUME QueueInv, NEW p \in Pods, Delete(p)
    PROVE  QueueInv'
  <1>1. Agrees(nominator')
    BY QueueInvParts, NominatorDeleteAgrees DEF Delete
  <1>2. Sets'
    BY QueueInvParts DEF Delete, Sets, OneQueue
  <1>3. Flags'
    BY QueueInvParts, Zenon DEF Delete, Flags
  <1>4. asleep' = asleep /\ activeQ' \subseteq activeQ
    BY DEF Delete
  <1>5. NoMissedWakeup'
    BY <1>4, QueueInvParts DEF NoMissedWakeup
  <1> QED BY <1>1, <1>2, <1>3, <1>5, QueueInvPartsPrimed

\* movePodsToActiveOrBackoffQueue takes what it moves out of unschedulableQ and
\* broadcasts.
LEMMA MoveKeeps ==
    ASSUME QueueInv, NEW S \in SUBSET unschedulableQ, movePodsToActiveOrBackoffQueue(S)
    PROVE  QueueInv'
  <1>1. Agrees(nominator')
    BY QueueInvParts DEF movePodsToActiveOrBackoffQueue
  <1>2. Sets'
    BY QueueInvParts DEF movePodsToActiveOrBackoffQueue, Sets, OneQueue
  <1>3. Flags' /\ NoMissedWakeup'
    BY QueueInvParts, Zenon DEF movePodsToActiveOrBackoffQueue, Flags, NoMissedWakeup
  <1> QED BY <1>1, <1>2, <1>3, QueueInvPartsPrimed

\* Pop waits only when activeQ is empty.
LEMMA WaitKeeps ==
    ASSUME QueueInv, Wait
    PROVE  QueueInv'
  <1>1. Agrees(nominator') /\ Sets'
    BY QueueInvParts DEF Wait, Sets, OneQueue
  <1>2. Flags' /\ NoMissedWakeup'
    BY QueueInvParts, Zenon DEF Wait, Flags, NoMissedWakeup
  <1> QED BY <1>1, <1>2, QueueInvPartsPrimed

\* Pop takes a pod away when it does not sleep.
LEMMA PopKeeps ==
    ASSUME QueueInv, NEW p \in Pods, Pop(p)
    PROVE  QueueInv'
  <1>1. Agrees(nominator') /\ Sets'
    BY QueueInvParts DEF Pop, Sets, OneQueue
  <1>2. Flags' /\ NoMissedWakeup'
    BY QueueInvParts, Zenon DEF Pop, Flags, NoMissedWakeup
  <1> QED BY <1>1, <1>2, QueueInvPartsPrimed

\* AddUnschedulableIfNotPresent adds a pod that no sub-queue has.
LEMMA AddUnschedulableKeeps ==
    ASSUME QueueInv, NEW p \in Pods, NEW moveSeen \in BOOLEAN, NEW nnn \in NodeName,
           AddUnschedulableIfNotPresent(p, moveSeen, nnn)
    PROVE  QueueInv'
  <1>1. CASE p \in Queued
    BY <1>1, QueueInvParts, QueueInvPartsPrimed
    DEF AddUnschedulableIfNotPresent, queueVars, Sets, OneQueue, Flags, NoMissedWakeup
  <1>2. CASE p \notin Queued
    <2>1. Agrees(nominator')
      BY <1>2, QueueInvParts, NominatorAddAgrees
      DEF AddUnschedulableIfNotPresent, NodeName
    <2>2. Sets'
      BY <1>2, QueueInvParts, StampedType
      DEF AddUnschedulableIfNotPresent, Sets, OneQueue, Queued
    <2>3. UNCHANGED <<activeQ, moved, asleep>>
      BY <1>2 DEF AddUnschedulableIfNotPresent
    <2>4. Flags' /\ NoMissedWakeup'
      BY <2>3, QueueInvParts, Zenon DEF Flags, NoMissedWakeup
    <2> QED BY <2>1, <2>2, <2>4, QueueInvPartsPrimed
  <1> QED BY <1>1, <1>2

\* The flush of podBackoffQ moves pods and broadcasts; the end of a backoff moves
\* nothing.
LEMMA TimeKeeps ==
    ASSUME QueueInv, flushBackoffQCompleted \/ \E p \in Pods : BackoffEnds(p)
    PROVE  QueueInv'
  <1>1. CASE flushBackoffQCompleted
    <2>1. Agrees(nominator') /\ Sets'
      BY <1>1, QueueInvParts DEF flushBackoffQCompleted, Sets, OneQueue
    <2>2. Flags' /\ NoMissedWakeup'
      BY <1>1, QueueInvParts, Zenon DEF flushBackoffQCompleted, Flags, NoMissedWakeup
    <2> QED BY <2>1, <2>2, QueueInvPartsPrimed
  <1>2. CASE \E p \in Pods : BackoffEnds(p)
    <2>1. Agrees(nominator') /\ Sets'
      BY <1>2, QueueInvParts DEF BackoffEnds, Sets, OneQueue
    <2>2. UNCHANGED <<activeQ, moved, asleep>>
      BY <1>2 DEF BackoffEnds
    <2>3. Flags' /\ NoMissedWakeup'
      BY <2>2, QueueInvParts, Zenon DEF Flags, NoMissedWakeup
    <2> QED BY <2>1, <2>3, QueueInvPartsPrimed
  <1> QED BY <1>1, <1>2

\* The calls of the nominator alone leave the sub-queues as they are.
LEMMA NominationKeeps ==
    ASSUME QueueInv, NEW p \in Pods, NEW nodeName \in NodeName, NEW nnn \in NodeName,
           AddNominatedPod(p, nodeName, nnn) \/ DeleteNominatedPodIfExists(p)
    PROVE  QueueInv'
  <1>1. Agrees(nominator')
    BY QueueInvParts, NominatorAddAgrees, NominatorDeleteAgrees
    DEF AddNominatedPod, DeleteNominatedPodIfExists
  <1>2. Sets'
    BY QueueInvParts DEF AddNominatedPod, DeleteNominatedPodIfExists, Sets, OneQueue
  <1>3. UNCHANGED <<activeQ, moved, asleep>>
    BY DEF AddNominatedPod, DeleteNominatedPodIfExists
  <1>4. Flags' /\ NoMissedWakeup'
    BY <1>3, QueueInvParts, Zenon DEF Flags, NoMissedWakeup
  <1> QED BY <1>1, <1>2, <1>4, QueueInvPartsPrimed

-----------------------------------------------------------------------------

\* Every call keeps the invariant: one case per operation.
LEMMA QueueNextKeeps == QueueInv /\ [QueueNext]_queueVars => QueueInv'
  <1> SUFFICES ASSUME QueueInv, [QueueNext]_queueVars PROVE QueueInv'
    OBVIOUS
  <1> NoNode \in NodeName
    BY DEF NodeName
  <1>1. CASE \E p \in Pods, nodeName, nnn \in NodeName : AddNominatedPod(p, nodeName, nnn)
    BY <1>1, NominationKeeps
  <1>2. CASE \E p \in Pods : DeleteNominatedPodIfExists(p)
    BY <1>2, NominationKeeps
  <1>3. CASE \E p \in Pods, nnn \in NodeName : Add(p, nnn)
    BY <1>3, AddKeeps
  <1>4. CASE \E p \in Pods, oldNnn, nnn \in NodeName, updated \in BOOLEAN :
                Update(p, oldNnn, nnn, updated)
    BY <1>4, UpdateKeeps
  <1>5. CASE \E p \in Pods : Delete(p)
    BY <1>5, DeleteKeeps
  <1>6. CASE MoveAllToActiveOrBackoffQueue
    BY <1>6, MoveKeeps DEF MoveAllToActiveOrBackoffQueue
  <1>7. CASE AssignedPodAddedOrUpdated
    BY <1>7, MoveKeeps DEF AssignedPodAddedOrUpdated
  <1>8. CASE Wait
    BY <1>8, WaitKeeps
  <1>9. CASE \E p \in Pods : Pop(p)
    BY <1>9, PopKeeps
  <1>10. CASE \E p \in Pods, moveSeen \in BOOLEAN, nnn \in NodeName :
                 AddUnschedulableIfNotPresent(p, moveSeen, nnn)
    BY <1>10, AddUnschedulableKeeps
  <1>11. CASE flushBackoffQCompleted \/ \E p \in Pods : BackoffEnds(p)
    BY <1>11, TimeKeeps
  <1>12. CASE \E S \in SUBSET unschedulableQ : flushUnschedulableQLeftover(S)
    BY <1>12, MoveKeeps DEF flushUnschedulableQLeftover
  <1>13. CASE UNCHANGED queueVars
    BY <1>13, QueueInvParts, QueueInvPartsPrimed
    DEF queueVars, Sets, OneQueue, Flags, NoMissedWakeup
  <1> QED
    BY <1>1, <1>2, <1>3, <1>4, <1>5, <1>6, <1>7, <1>8, <1>9, <1>10, <1>11, <1>12,
       <1>13 DEF QueueNext

\* PriorityQueue, under any sequence of calls of any callers, keeps every pod in
\* at most one of activeQ, podBackoffQ and unschedulableQ, what Delete and Update
\* take for granted when they stop at the first sub-queue that has the pod; and
\* nominatedPods and nominatedPodToNode are each other's inverse.
THEOREM QueueOnePlace == QueueSpec => []OnePlace
  <1>1. QueueInv => OnePlace
    BY DEF QueueInv, OnePlace
  <1> QED BY <1>1, QueueInitInv, QueueNextKeeps, PTL DEF QueueSpec

\* Pop never waits on the condition variable while activeQ has a pod: every
\* operation that adds to activeQ broadcasts.
THEOREM QueueNoMissedWakeup == QueueSpec => []NoMissedWakeup
  <1>1. QueueInv => NoMissedWakeup
    BY DEF QueueInv
  <1> QED BY <1>1, QueueInitInv, QueueNextKeeps, PTL DEF QueueSpec

-----------------------------------------------------------------------------
(* The inductive invariant.                                                *)

\* The steps of a worker between assume and the forgetting or the confirmation
\* of what it assumed.
Assuming == {"reserved", "binding", "bound", "refused", "unreserve"}

WorkerOK ==
    \A w \in Workers :
        /\ worker[w].step # "idle" => worker[w].pod \in Pods
        /\ worker[w].step = "idle" => worker[w].pod = NoPod
        /\ worker[w].step \in Assuming => worker[w].node \in Nodes

\* Handlers see what was stored, and a pod that is not bound never was.
TrailOK ==
    \A p \in Pods :
        /\ \A h \in Handlers : seen[h][p] <= Len(trail[p])
        /\ \A k \in 1..Len(trail[p]) :
              /\ api[p] = "pending" => trail[p][k] = "pending"
              /\ api[p] \in Unassigned => trail[p][k] \in Unassigned

\* What the queue or a worker has, the queue's handler was told of.
Told ==
    \A p \in Pods :
        p \in Queued \/ (\E w \in Workers : HeldBy(w, p)) => seen["queue"][p] > 0

\* The cache holds a pod as added exactly while its handler's last notification
\* says that the pod is bound, and then on that node: neither an assumption, nor
\* its expiry, nor a goroutine that forgets what it assumed earlier interferes.
CacheFollowsWatch ==
    \A p \in Pods :
        /\ phase[p] = "Added" <=> SeenBy("cache", p) \in Nodes
        /\ phase[p] = "Added" => p \in aggregated[SeenBy("cache", p)]

\* No node accounts for a pod the cache does not have, and no two nodes account
\* for the same pod.
AccountedOnce ==
    \A p \in Pods : \A n \in Nodes :
        p \in aggregated[n] =>
            /\ phase[p] # "Absent"
            /\ \A m \in Nodes : p \in aggregated[m] => m = n

\* The API server knows of a successful bind.
BoundOK ==
    \A w \in Workers :
        worker[w].step = "bound" => api[worker[w].pod] \notin Unassigned

\* A worker that made the assumption is still at it, or its binding finished and
\* the pod was bound.
AssumedOK ==
    \A p \in Pods :
        phase[p] = "Assumed" =>
            \/ \E w \in Workers : /\ HeldBy(w, p) /\ worker[w].step \in Assuming
                                  /\ p \in aggregated[worker[w].node]
            \/ p \in expirable /\ api[p] \notin Unassigned

\* The loop is at p and has still to put it back.
OnTheWay(p) ==
    /\ HeldBy("loop", p)
    /\ worker["loop"].step \in {"failed", "requeue"}

\* The move request was noted for a pod that is not in the queue yet.
MoveRecorded(p) ==
    /\ moved
    /\ \A w \in Workers :
          HeldBy(w, p) /\ worker[w].step = "requeue" => worker[w].moveSeen

OutdatedOK ==
    \A p \in outdated :
        api[p] \in Unassigned =>
            /\ p \in Queued \/ OnTheWay(p)
            /\ \/ moving \cap {"removed", "node"} # {}
               \/ p \notin unschedulableQ /\ (p \in Queued \/ MoveRecorded(p))

Inv ==
    /\ TypeOK
    /\ QueueInv
    /\ WorkerOK
    /\ TrailOK
    /\ Told
    /\ CacheFollowsWatch
    /\ AccountedOnce
    /\ BoundOK
    /\ AssumedOK
    /\ NoPodLost
    /\ OutdatedOK

-----------------------------------------------------------------------------
(* Types.  Who changes what: every step is one of these for the workers,   *)
(* and one of those for the pods.                                          *)

WorkerState ==
    [step : Step, pod : Pods \cup {NoPod}, node : NodeName, moveSeen : BOOLEAN]

\* What a step may do to the workers, without what it depends on.
WorkerStep ==
    \/ UNCHANGED worker
    \/ worker' = MoveNoted
    \/ \E w \in Workers, r \in WorkerState : worker' = [worker EXCEPT ![w] = r]
    \/ \E s \in Slots, r \in WorkerState :
          worker' = [worker EXCEPT ![s] = r, !["loop"] = Idle]

\* A worker without a pod is a worker.
LEMMA IdleType == Idle \in WorkerState
  BY DEF Idle, WorkerState, Step, NodeName

\* To and Drop change one worker.
LEMMA ToIsWorkerStep ==
    ASSUME TypeOK, NEW w \in Workers, NEW step \in Step, To(w, step) \/ Drop(w)
    PROVE  WorkerStep
  <1>1. worker[w] \in WorkerState
    BY DEF TypeOK, WorkerState
  <1>2. [worker[w] EXCEPT !.step = step] \in WorkerState
    BY <1>1 DEF WorkerState
  <1>3. CASE To(w, step)
    <2>1. worker' = [worker EXCEPT ![w] = [worker[w] EXCEPT !.step = step]]
      BY <1>3 DEF To
    <2> QED BY <1>2, <2>1 DEF WorkerStep
  <1>4. CASE Drop(w)
    BY <1>4, IdleType DEF Drop, WorkerStep
  <1> QED BY <1>3, <1>4

\* Every step is such a step.
LEMMA WorkersChange ==
    ASSUME TypeOK, [Next]_vars
    PROVE  WorkerStep
  <1> "loop" \in Workers /\ Slots \subseteq Workers /\ NoNode \in NodeName
      /\ Nodes \subseteq NodeName
    BY DEF Workers, NodeName
  <1>1. CASE \/ UNCHANGED vars
             \/ NextPodWaits
             \/ \E p \in Pods : \/ ApiChanges(p) \/ InformerStores(p) \/ QueueHandler(p)
                                \/ CacheHandler(p) \/ ExpirePod(p)
             \/ NodeChanges \/ Flush
    <2>1. UNCHANGED worker
      BY <1>1 DEF vars, NextPodWaits, ApiChanges, InformerStores, QueueHandler,
        addPodToSchedulingQueue, updatePodInSchedulingQueue,
        deletePodFromSchedulingQueue, QueueFilters, CacheHandler, addPodToCache,
        updatePodInCache, deletePodFromCache, CacheFilters, ExpirePod, NodeChanges,
        Flush
    <2> QED BY <2>1 DEF WorkerStep
  <1>2. CASE \/ AssignedPodMoves \/ AssignedPodDeleteMoves \/ NodeMoves
             \/ \E S \in SUBSET unschedulableQ : FlushLeftover(S)
    BY <1>2 DEF AssignedPodMoves, AssignedPodDeleteMoves, NodeMoves, FlushLeftover,
      WorkerStep
  <1>3. ASSUME NEW p \in Pods, NextPod(p)
        PROVE  WorkerStep
    <2>1. [step |-> "popped", pod |-> p, node |-> NoNode, moveSeen |-> FALSE]
            \in WorkerState
      BY DEF WorkerState, Step
    <2> QED BY <1>3, <2>1 DEF NextPod, WorkerStep
  <1>4. ASSUME NEW p \in Pods, skipPodSchedule(p) \/ assumeFails(p)
        PROVE  WorkerStep
    BY <1>4, ToIsWorkerStep DEF skipPodSchedule, assumeFails, Step
  <1>5. ASSUME NEW w \in Workers, NEW step \in Step, NEW node \in NodeName,
               worker' = [worker EXCEPT ![w].step = step, ![w].node = node]
        PROVE  WorkerStep
    <2>1. [worker[w] EXCEPT !.step = step, !.node = node] \in WorkerState
      BY DEF TypeOK, WorkerState
    <2>2. worker' = [worker EXCEPT ![w] =
                        [worker[w] EXCEPT !.step = step, !.node = node]]
      BY <1>5 DEF TypeOK
    <2> QED BY <2>1, <2>2 DEF WorkerStep
  <1>6. ASSUME NEW p \in Pods,
               \/ \E n \in NodeName : ScheduleFails(p, n)
               \/ \E n \in Nodes : assume(p, n)
        PROVE  WorkerStep
    BY <1>5, <1>6 DEF ScheduleFails, assume, Step
  <1>7. ASSUME NEW w \in Workers, GiveUp(w)
        PROVE  WorkerStep
    BY <1>5, <1>7 DEF GiveUp, Step
  <1>8. CASE ReserveFails \/ \E s \in Slots : PermitFails(s) \/ BindFails(s)
    BY <1>7, <1>8 DEF ReserveFails, PermitFails, BindFails
  <1>9. ASSUME NEW s \in Slots, StartBinding(s)
        PROVE  WorkerStep
    <2>1. [worker["loop"] EXCEPT !.step = "binding"] \in WorkerState
      BY DEF TypeOK, WorkerState, Step
    <2> QED BY <1>9, <2>1 DEF StartBinding, WorkerStep
  <1>10. ASSUME NEW s \in Slots, bind(s) \/ finishBinding(s)
         PROVE  WorkerStep
    BY <1>10, ToIsWorkerStep DEF bind, finishBinding, Step
  <1>11. ASSUME NEW w \in Workers, ErrorReadsLister(w)
         PROVE  WorkerStep
    <2>1. CASE To(w, "nominate")
      BY <2>1, ToIsWorkerStep DEF Step
    <2>2. CASE worker' = [worker EXCEPT ![w].step = "requeue", ![w].moveSeen = moved]
      <3>1. [worker[w] EXCEPT !.step = "requeue", !.moveSeen = moved] \in WorkerState
        BY DEF TypeOK, QueueTypeOK, WorkerState, Step
      <3>2. worker' = [worker EXCEPT ![w] =
                          [worker[w] EXCEPT !.step = "requeue", !.moveSeen = moved]]
        BY <2>2 DEF TypeOK
      <3> QED BY <3>1, <3>2 DEF WorkerStep
    <2> QED BY <1>11, <2>1, <2>2 DEF ErrorReadsLister
  <1>12. ASSUME NEW w \in Workers, ErrorRequeues(w) \/ RecordNomination(w)
         PROVE  WorkerStep
    BY <1>12, ToIsWorkerStep DEF ErrorRequeues, RecordNomination, Step
  <1>13. CASE SchedulingCycle
    BY <1>1, <1>3, <1>4, <1>6, <1>8, <1>9, <1>13 DEF SchedulingCycle
  <1>14. CASE \E s \in Slots : BindingCycle(s)
    BY <1>8, <1>10, <1>14 DEF BindingCycle
  <1>15. CASE \E w \in Workers : RecordFailure(w)
    BY <1>11, <1>12, <1>15 DEF RecordFailure
  <1> QED BY <1>1, <1>2, <1>13, <1>14, <1>15 DEF Next

\* Such a step leaves workers.
LEMMA WorkerStepType ==
    ASSUME TypeOK, WorkerStep
    PROVE  worker' \in [Workers -> WorkerState]
  <1>0. worker \in [Workers -> WorkerState] /\ Idle \in WorkerState
    BY IdleType DEF TypeOK, WorkerState
  <1>1. CASE worker' = MoveNoted
    <2>1. ASSUME NEW w \in Workers
          PROVE  [worker[w] EXCEPT !.moveSeen = TRUE] \in WorkerState
      BY <1>0 DEF WorkerState
    <2> QED BY <1>0, <1>1, <2>1 DEF MoveNoted
  <1>2. CASE UNCHANGED worker
    BY <1>0, <1>2
  <1>3. CASE \E w \in Workers, r \in WorkerState : worker' = [worker EXCEPT ![w] = r]
    BY <1>0, <1>3
  <1>4. CASE \E s \in Slots, r \in WorkerState :
                worker' = [worker EXCEPT ![s] = r, !["loop"] = Idle]
    BY <1>0, <1>4
  <1> QED BY <1>1, <1>2, <1>3, <1>4 DEF WorkerStep

\* What a step may do to the pods in the API server and the informer.
PodStep ==
    \/ UNCHANGED <<api, trail, seen>>
    \/ \E s \in Slots : bind(s)
    \/ \E p \in Pods : ApiChanges(p) \/ InformerStores(p)
    \/ \E h \in Handlers, p \in Pods : Notified(h, p)

\* Every step is such a step.
LEMMA PodsChange ==
    ASSUME [Next]_vars
    PROVE  PodStep
  <1>1. CASE \/ UNCHANGED vars
             \/ SchedulingCycle
             \/ \E s \in Slots : PermitFails(s) \/ finishBinding(s) \/ BindFails(s)
             \/ \E w \in Workers : RecordFailure(w)
             \/ \E p \in Pods : ExpirePod(p)
             \/ AssignedPodMoves \/ AssignedPodDeleteMoves \/ NodeChanges \/ NodeMoves
             \/ Flush
             \/ \E S \in SUBSET unschedulableQ : FlushLeftover(S)
    <2>1. UNCHANGED <<api, trail, seen>>
      BY <1>1 DEF vars, podVars, SchedulingCycle, NextPodWaits, NextPod,
        skipPodSchedule, ScheduleFails, assume, assumeFails, ReserveFails, GiveUp,
        StartBinding, PermitFails, finishBinding, BindFails, RecordFailure,
        ErrorReadsLister, ErrorRequeues, RecordNomination, ExpirePod,
        AssignedPodMoves, AssignedPodDeleteMoves, NodeChanges, NodeMoves, Flush,
        FlushLeftover
    <2> QED BY <2>1 DEF PodStep
  <1>2. CASE \E p \in Pods : QueueHandler(p)
    BY <1>2 DEF QueueHandler, addPodToSchedulingQueue, updatePodInSchedulingQueue,
      deletePodFromSchedulingQueue, QueueFilters, podVars, Handlers, PodStep
  <1>3. CASE \E p \in Pods : CacheHandler(p)
    BY <1>3 DEF CacheHandler, addPodToCache, updatePodInCache,
      deletePodFromCache, CacheFilters, podVars, Handlers, PodStep
  <1> QED BY <1>1, <1>2, <1>3 DEF Next, BindingCycle, PodStep

\* What the API server has of a pod and what the informer keeps stays typed.
LEMMA PodStepType ==
    ASSUME TypeOK, WorkerOK, PodStep
    PROVE  /\ api' \in [Pods -> PodState]
           /\ trail' \in [Pods -> Seq(PodState)]
           /\ seen' \in [Handlers -> [Pods -> Nat]]
  <1>0. /\ api \in [Pods -> PodState]
        /\ trail \in [Pods -> Seq(PodState)]
        /\ seen \in [Handlers -> [Pods -> Nat]]
    BY DEF TypeOK
  <1>1. CASE UNCHANGED <<api, trail, seen>>
    BY <1>0, <1>1
  <1>2. ASSUME NEW s \in Slots, bind(s)
        PROVE  api' \in [Pods -> PodState] /\ UNCHANGED <<trail, seen>>
    <2>1. worker[s].node \in PodState
      BY <1>2 DEF bind, WorkerOK, Assuming, Workers, PodState
    <2> QED BY <1>0, <1>2, <2>1 DEF bind
  <1>3. ASSUME NEW p \in Pods, ApiChanges(p)
        PROVE  api' \in [Pods -> PodState] /\ UNCHANGED <<trail, seen>>
    BY <1>0, <1>3 DEF ApiChanges, PodState
  <1>4. ASSUME NEW p \in Pods, InformerStores(p)
        PROVE  trail' \in [Pods -> Seq(PodState)] /\ UNCHANGED <<api, seen>>
    <2>1. Append(trail[p], api[p]) \in Seq(PodState)
      BY <1>0
    <2> QED BY <1>0, <1>4, <2>1 DEF InformerStores
  <1>5. ASSUME NEW h \in Handlers, NEW p \in Pods, Notified(h, p)
        PROVE  seen' \in [Handlers -> [Pods -> Nat]] /\ UNCHANGED <<api, trail>>
    BY <1>0, <1>5 DEF Notified
  <1> QED BY <1>0, <1>1, <1>2, <1>3, <1>4, <1>5 DEF PodStep

\* A worker that is not idle has a pod.
LEMMA BusyWorker ==
    ASSUME TypeOK, WorkerOK, NEW w \in Workers, worker[w].step # "idle"
    PROVE  /\ worker[w].pod \in Pods
           /\ worker[w].node \in NodeName
           /\ worker[w].moveSeen \in BOOLEAN
           /\ Copies(worker[w].pod) \subseteq NodeName
  <1>1. worker[w].pod \in Pods
    BY DEF WorkerOK
  <1> QED BY <1>1 DEF TypeOK, Copies, NodeName

\* The scheduler uses the queue as its specification allows: every step is one
\* operation of the queue, or none.
LEMMA QueueStep ==
    ASSUME TypeOK, WorkerOK, [Next]_vars
    PROVE  [QueueNext]_queueVars
  <1> /\ NoNode \in NodeName /\ "loop" \in Workers
      /\ Slots \subseteq Workers
      /\ \A p \in Pods : Copies(p) \subseteq NodeName
    BY DEF NodeName, Workers, TypeOK, Copies
  <1>1. CASE \/ UNCHANGED vars
             \/ \E p \in Pods : \/ skipPodSchedule(p) \/ assumeFails(p)
                                \/ \E n \in NodeName : ScheduleFails(p, n)
             \/ ReserveFails
             \/ \E s \in Slots : StartBinding(s) \/ BindingCycle(s)
             \/ \E w \in Workers : ErrorReadsLister(w)
             \/ \E p \in Pods : \/ ApiChanges(p) \/ InformerStores(p) \/ QueueFilters(p)
                                \/ CacheHandler(p) \/ ExpirePod(p)
             \/ NodeChanges
    BY <1>1 DEF vars, skipPodSchedule, assumeFails, ScheduleFails, ReserveFails,
      GiveUp, StartBinding, BindingCycle, PermitFails, bind, finishBinding, BindFails,
      ErrorReadsLister, ApiChanges, InformerStores, QueueFilters, CacheHandler,
      addPodToCache, updatePodInCache, deletePodFromCache, CacheFilters, ExpirePod,
      NodeChanges
  <1>2. CASE NextPodWaits
    BY <1>2 DEF NextPodWaits, QueueNext
  <1>3. CASE \E p \in Pods : NextPod(p)
    BY <1>3 DEF NextPod, QueueNext
  <1>4. CASE \E p \in Pods, n \in Nodes : assume(p, n)
    BY <1>4 DEF assume, QueueNext
  <1>5. CASE \E w \in Workers : ErrorRequeues(w)
    BY <1>5, BusyWorker DEF ErrorRequeues, QueueNext
  <1>6. CASE \E w \in Workers : RecordNomination(w)
    BY <1>6, BusyWorker DEF RecordNomination, QueueNext
  <1>7. CASE \E p \in Pods : addPodToSchedulingQueue(p)
    BY <1>7 DEF addPodToSchedulingQueue, QueueNext
  <1>8. CASE \E p \in Pods, updated \in BOOLEAN : updatePodInSchedulingQueue(p, updated)
    BY <1>8 DEF updatePodInSchedulingQueue, QueueNext
  <1>9. CASE \E p \in Pods : deletePodFromSchedulingQueue(p)
    BY <1>9 DEF deletePodFromSchedulingQueue, QueueNext
  <1>10. CASE AssignedPodMoves \/ AssignedPodDeleteMoves \/ NodeMoves
    BY <1>10 DEF AssignedPodMoves, AssignedPodDeleteMoves, NodeMoves, QueueNext
  <1>11. CASE Flush \/ \E S \in SUBSET unschedulableQ : FlushLeftover(S)
    BY <1>11 DEF Flush, FlushLeftover, QueueNext
  <1>12. CASE SchedulingCycle
    BY <1>1, <1>2, <1>3, <1>4, <1>12 DEF SchedulingCycle
  <1>13. CASE \E w \in Workers : RecordFailure(w)
    BY <1>1, <1>5, <1>6, <1>13 DEF RecordFailure
  <1>14. CASE \E p \in Pods : QueueHandler(p)
    BY <1>1, <1>7, <1>8, <1>9, <1>14 DEF QueueHandler
  <1> QED BY <1>1, <1>10, <1>11, <1>12, <1>13, <1>14 DEF Next

\* What a worker and time do to the cache.
CacheStepOfWorker ==
    \/ UNCHANGED cacheVars
    \/ \E p \in Pods : \/ Cache!FinishBinding(p) \/ Cache!Forget(p)
                       \/ \E n \in Nodes : assume(p, n)

\* ForgetPod is the cache's Forget, or nothing.
LEMMA ForgetStep ==
    ASSUME NEW p \in Pods, NEW n, ForgetPod(p, n)
    PROVE  CacheStepOfWorker
  BY DEF ForgetPod, CacheStepOfWorker

\* Only the handlers of assigned pods add pods to the cache or remove them.
LEMMA CacheCases ==
    ASSUME TypeOK, WorkerOK, [Next]_vars
    PROVE  \/ /\ UNCHANGED seen \/ \E p \in Pods : Notified("queue", p)
              /\ CacheStepOfWorker
           \/ \E p \in Pods : \/ addPodToCache(p) \/ deletePodFromCache(p)
                              \/ CacheFilters(p)
  <1> DEFINE Quiet == UNCHANGED seen \/ \E p \in Pods : Notified("queue", p)
  <1> "loop" \in Workers /\ Slots \subseteq Workers
    BY DEF Workers
  <1>1. CASE \/ UNCHANGED vars
             \/ NextPodWaits
             \/ \E p \in Pods : \/ NextPod(p) \/ skipPodSchedule(p) \/ assumeFails(p)
                                \/ \E n \in NodeName : ScheduleFails(p, n)
             \/ \E s \in Slots : StartBinding(s) \/ bind(s)
             \/ \E w \in Workers : RecordFailure(w)
             \/ \E p \in Pods : \/ ApiChanges(p) \/ InformerStores(p) \/ QueueHandler(p)
                                \/ updatePodInCache(p)
             \/ AssignedPodMoves \/ AssignedPodDeleteMoves \/ NodeChanges \/ NodeMoves
             \/ Flush
             \/ \E S \in SUBSET unschedulableQ : FlushLeftover(S)
    <2>1. UNCHANGED cacheVars
      BY <1>1 DEF vars, NextPodWaits, NextPod, skipPodSchedule, assumeFails,
        ScheduleFails, StartBinding, bind, RecordFailure, ErrorReadsLister,
        ErrorRequeues, RecordNomination, ApiChanges, InformerStores, QueueHandler,
        addPodToSchedulingQueue, updatePodInSchedulingQueue,
        deletePodFromSchedulingQueue, QueueFilters, updatePodInCache,
        AssignedPodMoves, AssignedPodDeleteMoves, NodeChanges, NodeMoves, Flush,
        FlushLeftover
    <2>2. Quiet
      BY <1>1 DEF vars, podVars, NextPodWaits, NextPod, skipPodSchedule, assumeFails,
        ScheduleFails, StartBinding, bind, RecordFailure, ErrorReadsLister,
        ErrorRequeues, RecordNomination, ApiChanges, InformerStores, QueueHandler,
        addPodToSchedulingQueue, updatePodInSchedulingQueue,
        deletePodFromSchedulingQueue, QueueFilters, updatePodInCache,
        AssignedPodMoves, AssignedPodDeleteMoves, NodeChanges, NodeMoves, Flush,
        FlushLeftover
    <2> QED BY <2>1, <2>2 DEF CacheStepOfWorker
  <1>2. CASE \E p \in Pods, n \in Nodes : assume(p, n)
    BY <1>2 DEF assume, podVars, CacheStepOfWorker
  <1>3. CASE ReserveFails \/ \E s \in Slots : PermitFails(s) \/ BindFails(s)
    BY <1>3, BusyWorker, ForgetStep
    DEF ReserveFails, PermitFails, BindFails, GiveUp, podVars
  <1>4. CASE \E s \in Slots : finishBinding(s)
    BY <1>4, BusyWorker DEF finishBinding, podVars, CacheStepOfWorker
  <1>5. CASE \E p \in Pods : ExpirePod(p)
    BY <1>5 DEF ExpirePod, Cache!Expire, podVars, CacheStepOfWorker
  <1>6. CASE SchedulingCycle
    BY <1>1, <1>2, <1>3, <1>6 DEF SchedulingCycle
  <1>7. CASE \E s \in Slots : BindingCycle(s)
    BY <1>1, <1>3, <1>4, <1>7 DEF BindingCycle
  <1>8. CASE \E p \in Pods : CacheHandler(p)
    BY <1>1, <1>8 DEF CacheHandler
  <1> QED BY <1>1, <1>5, <1>6, <1>7, <1>8 DEF Next

\* The scheduler uses the cache as its interface allows: every step is one
\* operation of the interface, or none.
LEMMA CacheStep ==
    ASSUME TypeOK, WorkerOK, [Next]_vars
    PROVE  [Cache!Next]_cacheVars
  <1>1. CASE CacheStepOfWorker
    BY <1>1 DEF CacheStepOfWorker, assume, Cache!Next
  <1>2. CASE \E p \in Pods : \/ addPodToCache(p) \/ deletePodFromCache(p)
                             \/ CacheFilters(p)
    BY <1>2 DEF addPodToCache, deletePodFromCache, CacheFilters, Cache!Next
  <1> QED BY <1>1, <1>2, CacheCases

CacheTypeOK ==
    /\ phase \in [Pods -> {"Absent", "Assumed", "Added"}]
    /\ aggregated \in [Nodes -> SUBSET Pods]
    /\ expirable \subseteq Pods

\* The interface's operations keep the types of its state.
LEMMA CacheStepType ==
    ASSUME CacheTypeOK, [Cache!Next]_cacheVars
    PROVE  CacheTypeOK'
  <1>1. ASSUME NEW p \in Pods
        PROVE  Cache!Subtracted(p) \in [Nodes -> SUBSET Pods]
    BY DEF CacheTypeOK, Cache!Subtracted
  <1>2. ASSUME NEW p \in Pods, Cache!FinishBinding(p)
        PROVE  CacheTypeOK'
    BY <1>2 DEF CacheTypeOK, Cache!FinishBinding
  <1>3. ASSUME NEW p \in Pods, Cache!Forget(p) \/ Cache!Remove(p)
        PROVE  CacheTypeOK'
    BY <1>1, <1>3 DEF CacheTypeOK, Cache!Forget, Cache!Remove
  <1>4. ASSUME NEW p \in Pods, NEW n \in Nodes, Cache!Assume(p, n)
        PROVE  CacheTypeOK'
    BY <1>4 DEF CacheTypeOK, Cache!Assume
  <1>5. ASSUME NEW p \in Pods, NEW n \in Nodes, Cache!Add(p, n)
        PROVE  CacheTypeOK'
    BY <1>1, <1>5 DEF CacheTypeOK, Cache!Add
  <1>6. CASE UNCHANGED cacheVars
    BY <1>6 DEF CacheTypeOK, cacheVars
  <1> QED BY <1>2, <1>3, <1>4, <1>5, <1>6 DEF Cache!Next, Cache!Expire

\* Only RecordNomination patches a status.
LEMMA StatusType ==
    ASSUME TypeOK, WorkerOK, [Next]_vars
    PROVE  status' \in [Pods -> NodeName]
  <1>0. status \in [Pods -> NodeName]
    BY DEF TypeOK
  <1>1. CASE \E w \in Workers : RecordNomination(w)
    BY <1>0, <1>1, BusyWorker DEF RecordNomination
  <1>2. CASE ~ \E w \in Workers : RecordNomination(w)
    <2>1. UNCHANGED status
      BY <1>2 DEF Next, vars, podVars, SchedulingCycle, NextPodWaits, NextPod,
        skipPodSchedule, ScheduleFails, assume, assumeFails, ReserveFails, GiveUp,
        StartBinding, BindingCycle, PermitFails, bind, finishBinding, BindFails,
        RecordFailure, ErrorReadsLister, ErrorRequeues, ApiChanges, InformerStores,
        QueueHandler, CacheHandler, Notified, addPodToSchedulingQueue,
        updatePodInSchedulingQueue, deletePodFromSchedulingQueue, QueueFilters,
        addPodToCache, updatePodInCache, deletePodFromCache, CacheFilters,
        ExpirePod, AssignedPodMoves, AssignedPodDeleteMoves, NodeChanges, NodeMoves,
        Flush, FlushLeftover
    <2> QED BY <1>0, <2>1
  <1> QED BY <1>1, <1>2

\* What a step may do to moving and outdated.
HandlerStep ==
    \/ UNCHANGED <<moving, outdated>>
    \/ \E p \in Pods : NextPod(p) \/ addPodToCache(p) \/ updatePodInCache(p)
                       \/ deletePodFromCache(p)
    \/ AssignedPodMoves \/ AssignedPodDeleteMoves \/ NodeChanges \/ NodeMoves

\* Every step is such a step.
LEMMA HandlersChange ==
    ASSUME [Next]_vars
    PROVE  HandlerStep
  BY DEF HandlerStep, Next, vars, SchedulingCycle, NextPodWaits, skipPodSchedule,
    ScheduleFails, assume, assumeFails, ReserveFails, GiveUp, StartBinding,
    BindingCycle, PermitFails, bind, finishBinding, BindFails, RecordFailure,
    ErrorReadsLister, ErrorRequeues, RecordNomination, ApiChanges, InformerStores,
    QueueHandler, CacheHandler, addPodToSchedulingQueue, updatePodInSchedulingQueue,
    deletePodFromSchedulingQueue, QueueFilters, CacheFilters, ExpirePod, Flush,
    FlushLeftover

\* moving and outdated stay typed.
LEMMA HandlerStepType ==
    ASSUME TypeOK, [Next]_vars
    PROVE  moving' \subseteq {"added", "removed", "node"} /\ outdated' \subseteq Pods
  <1>1. /\ moving \subseteq {"added", "removed", "node"} /\ outdated \subseteq Pods
        /\ Helped \subseteq Pods
    BY DEF TypeOK, QueueTypeOK, Helped
  <1> QED BY <1>1, HandlersChange DEF HandlerStep, NextPod, addPodToCache,
    updatePodInCache, deletePodFromCache, AssignedPodMoves, AssignedPodDeleteMoves,
    NodeChanges, NodeMoves

\* Every step keeps the types.
LEMMA TypeKeeps ==
    ASSUME TypeOK, QueueInv, WorkerOK, [Next]_vars
    PROVE  TypeOK'
  <1>1. QueueTypeOK'
    <2>1. QueueInv'
      BY QueueStep, QueueNextKeeps
    <2> QED BY <2>1 DEF QueueInv
  <1>2. CacheTypeOK'
    BY CacheStep, CacheStepType DEF TypeOK, CacheTypeOK
  <1>3. worker' \in [Workers -> WorkerState]
    BY WorkersChange, WorkerStepType
  <1>4. /\ api' \in [Pods -> PodState]
        /\ trail' \in [Pods -> Seq(PodState)]
        /\ seen' \in [Handlers -> [Pods -> Nat]]
    BY PodsChange, PodStepType
  <1> QED BY <1>1, <1>2, <1>3, <1>4, StatusType, HandlerStepType
    DEF TypeOK, CacheTypeOK, WorkerState

-----------------------------------------------------------------------------
(* The workers.                                                            *)

\* A step that is none of a worker's own leaves the workers as they are, except
\* that a move request may be noted.
LEMMA WorkerCases ==
    ASSUME [Next]_vars
    PROVE  \/ worker' \in {worker, MoveNoted}
           \/ \E p \in Pods : \/ NextPod(p) \/ skipPodSchedule(p) \/ assumeFails(p)
                              \/ \E n \in NodeName : ScheduleFails(p, n)
                              \/ \E n \in Nodes : assume(p, n)
           \/ ReserveFails
           \/ \E s \in Slots : StartBinding(s) \/ BindingCycle(s)
           \/ \E w \in Workers : RecordFailure(w)
  BY DEF Next, vars, SchedulingCycle, NextPodWaits, ApiChanges, InformerStores,
    QueueHandler, addPodToSchedulingQueue, updatePodInSchedulingQueue,
    deletePodFromSchedulingQueue, QueueFilters, CacheHandler, addPodToCache,
    updatePodInCache, deletePodFromCache, CacheFilters, ExpirePod, NodeChanges,
    Flush, AssignedPodMoves, AssignedPodDeleteMoves, NodeMoves, FlushLeftover

\* A noted move request changes nothing else of a worker.
LEMMA MoveNotedFacts ==
    ASSUME TypeOK, worker' \in {worker, MoveNoted}, NEW w \in Workers
    PROVE  /\ worker'[w].step = worker[w].step
           /\ worker'[w].pod = worker[w].pod
           /\ worker'[w].node = worker[w].node
           /\ worker[w].moveSeen => worker'[w].moveSeen
           /\ worker' = MoveNoted /\ worker[w].step = "requeue" => worker'[w].moveSeen
  <1>1. CASE worker' = worker /\ worker' # MoveNoted
    BY <1>1
  <1>2. CASE worker' = MoveNoted
    <2>1. worker'[w] = IF worker[w].step = "requeue"
                       THEN [worker[w] EXCEPT !.moveSeen = TRUE] ELSE worker[w]
      BY <1>2 DEF MoveNoted
    <2> QED BY <2>1 DEF TypeOK
  <1> QED BY <1>1, <1>2

OthersStay(w) == \A v \in Workers \ {w} : worker'[v] = worker[v]

\* To takes a worker to its next step at the same pod and node.
LEMMA ToFacts ==
    ASSUME TypeOK, NEW w \in Workers, NEW step \in Step, To(w, step)
    PROVE  /\ worker'[w].step = step /\ worker'[w].pod = worker[w].pod
           /\ worker'[w].node = worker[w].node
           /\ OthersStay(w)
  BY DEF TypeOK, To, OthersStay

\* Drop leaves a worker without a pod.
LEMMA DropFacts ==
    ASSUME TypeOK, NEW w \in Workers, Drop(w)
    PROVE  worker'[w].step = "idle" /\ worker'[w].pod = NoPod /\ OthersStay(w)
  BY DEF TypeOK, Drop, Idle, OthersStay

\* A worker that gives up stays at its pod.
LEMMA GiveUpFacts ==
    ASSUME TypeOK, NEW w \in Workers, GiveUp(w)
    PROVE  /\ worker'[w].step = "failed" /\ worker'[w].pod = worker[w].pod
           /\ OthersStay(w)
  BY DEF TypeOK, GiveUp, OthersStay

\* The loop from NextPod to assume, or to the failure.
LEMMA LoopFacts ==
    ASSUME TypeOK, NEW p \in Pods
    PROVE  /\ NextPod(p) => /\ worker["loop"].step = "idle"
                            /\ worker'["loop"].step = "popped"
                            /\ worker'["loop"].pod = p /\ OthersStay("loop")
           /\ skipPodSchedule(p) => /\ worker["loop"].step = "popped"
                                    /\ worker["loop"].pod = p
                                    /\ worker'["loop"].step = "idle"
                                    /\ worker'["loop"].pod = NoPod
                                    /\ OthersStay("loop")
           /\ assumeFails(p) \/ (\E n \in NodeName : ScheduleFails(p, n)) =>
                 /\ worker["loop"].step = "popped" /\ worker["loop"].pod = p
                 /\ worker'["loop"].step = "failed" /\ worker'["loop"].pod = p
                 /\ OthersStay("loop")
           /\ \A n \in Nodes : assume(p, n) =>
                 /\ worker["loop"].step = "popped" /\ worker["loop"].pod = p
                 /\ worker'["loop"].step = "reserved" /\ worker'["loop"].pod = p
                 /\ worker'["loop"].node = n /\ OthersStay("loop")
  <1> "loop" \in Workers
    BY DEF Workers
  <1>1. NextPod(p) => /\ worker["loop"].step = "idle"
                      /\ worker'["loop"].step = "popped"
                      /\ worker'["loop"].pod = p /\ OthersStay("loop")
    BY DEF TypeOK, NextPod, OthersStay
  <1>2. skipPodSchedule(p) => /\ worker["loop"].step = "popped"
                              /\ worker["loop"].pod = p
                              /\ worker'["loop"].step = "idle"
                              /\ worker'["loop"].pod = NoPod
                              /\ OthersStay("loop")
    BY DropFacts DEF skipPodSchedule
  <1>3. assumeFails(p) \/ (\E n \in NodeName : ScheduleFails(p, n)) =>
           /\ worker["loop"].step = "popped" /\ worker["loop"].pod = p
           /\ worker'["loop"].step = "failed" /\ worker'["loop"].pod = p
           /\ OthersStay("loop")
    BY DEF TypeOK, assumeFails, To, ScheduleFails, OthersStay
  <1>4. \A n \in Nodes : assume(p, n) =>
           /\ worker["loop"].step = "popped" /\ worker["loop"].pod = p
           /\ worker'["loop"].step = "reserved" /\ worker'["loop"].pod = p
           /\ worker'["loop"].node = n /\ OthersStay("loop")
    BY DEF TypeOK, assume, OthersStay
  <1> QED BY <1>1, <1>2, <1>3, <1>4

\* The binding goroutine takes over the loop's pod and node.
LEMMA StartBindingFacts ==
    ASSUME TypeOK, NEW s \in Slots, StartBinding(s)
    PROVE  /\ worker["loop"].step = "reserved" /\ worker[s].step = "idle"
           /\ worker'[s].step = "binding" /\ worker'[s].pod = worker["loop"].pod
           /\ worker'[s].node = worker["loop"].node
           /\ worker'["loop"].step = "idle" /\ worker'["loop"].pod = NoPod
           /\ \A v \in Workers \ {s, "loop"} : worker'[v] = worker[v]
  BY SlotsAssumption DEF TypeOK, StartBinding, Workers, Idle

\* bind and finishBinding go on at the same pod, or are done with it.
LEMMA BindingFacts ==
    ASSUME TypeOK, NEW s \in Slots
    PROVE  /\ bind(s) => /\ worker[s].step = "binding"
                         /\ worker'[s].step \in {"bound", "refused"}
                         /\ worker'[s].pod = worker[s].pod
                         /\ worker'[s].node = worker[s].node
                         /\ OthersStay(s)
           /\ finishBinding(s) =>
                 \/ /\ worker[s].step = "bound"
                    /\ worker'[s].step = "idle" /\ worker'[s].pod = NoPod
                    /\ OthersStay(s)
                 \/ /\ worker[s].step = "refused"
                    /\ worker'[s].step = "unreserve"
                    /\ worker'[s].pod = worker[s].pod
                    /\ worker'[s].node = worker[s].node
                    /\ OthersStay(s)
  <1> s \in Workers
    BY DEF Workers
  <1>1. {"bound", "refused", "unreserve"} \subseteq Step
    BY DEF Step
  <1> QED BY <1>1, ToFacts, DropFacts DEF bind, finishBinding

\* recordSchedulingFailure.
LEMMA FailureFacts ==
    ASSUME TypeOK, NEW w \in Workers
    PROVE  /\ ErrorReadsLister(w) =>
                 /\ worker[w].step = "failed" /\ worker'[w].pod = worker[w].pod
                 /\ worker'[w].step \in {"nominate", "requeue"}
                 /\ worker'[w].step = "requeue" => worker'[w].moveSeen = moved
                 /\ worker'[w].step = "nominate" =>
                       lister(worker[w].pod) \in {"absent", "gone"}
                 /\ OthersStay(w)
           /\ ErrorRequeues(w) =>
                 /\ worker[w].step = "requeue" /\ worker'[w].step = "nominate"
                 /\ worker'[w].pod = worker[w].pod /\ OthersStay(w)
           /\ RecordNomination(w) =>
                 /\ worker[w].step = "nominate" /\ worker'[w].step = "idle"
                 /\ worker'[w].pod = NoPod /\ OthersStay(w)
  <1>1. ASSUME ErrorReadsLister(w)
        PROVE  /\ worker[w].step = "failed" /\ worker'[w].pod = worker[w].pod
               /\ worker'[w].step \in {"nominate", "requeue"}
               /\ worker'[w].step = "requeue" => worker'[w].moveSeen = moved
               /\ worker'[w].step = "nominate" =>
                       lister(worker[w].pod) \in {"absent", "gone"}
               /\ OthersStay(w)
    <2>1. CASE lister(worker[w].pod) \in {"absent", "gone"}
      <3>1. To(w, "nominate") /\ worker[w].step = "failed" /\ "nominate" \in Step
        BY <1>1, <2>1 DEF ErrorReadsLister, Step
      <3> QED BY <2>1, <3>1, ToFacts
    <2>2. CASE lister(worker[w].pod) \notin {"absent", "gone"}
      BY <1>1, <2>2 DEF ErrorReadsLister, TypeOK, OthersStay
    <2> QED BY <2>1, <2>2
  <1>2. ErrorRequeues(w) =>
           /\ worker[w].step = "requeue" /\ worker'[w].step = "nominate"
           /\ worker'[w].pod = worker[w].pod /\ OthersStay(w)
    BY ToFacts DEF ErrorRequeues, Step
  <1>3. RecordNomination(w) =>
           /\ worker[w].step = "nominate" /\ worker'[w].step = "idle"
           /\ worker'[w].pod = NoPod /\ OthersStay(w)
    BY DropFacts DEF RecordNomination
  <1> QED BY <1>1, <1>2, <1>3

\* A worker at a step has a pod, and a node from assume until it gives up.
LEMMA WorkerKeeps ==
    ASSUME TypeOK, WorkerOK, [Next]_vars
    PROVE  WorkerOK'
  <1> "loop" \in Workers /\ Slots \subseteq Workers
    BY DEF Workers
  <1> USE DEF Assuming, OthersStay
  <1>1. CASE worker' \in {worker, MoveNoted}
    BY <1>1, MoveNotedFacts DEF WorkerOK
  <1>2. ASSUME NEW p \in Pods, \/ NextPod(p) \/ skipPodSchedule(p) \/ assumeFails(p)
                               \/ \E n \in NodeName : ScheduleFails(p, n)
                               \/ \E n \in Nodes : assume(p, n)
        PROVE  WorkerOK'
    BY <1>2, LoopFacts DEF WorkerOK
  <1>3. ASSUME NEW w \in Workers, worker[w].step # "idle", GiveUp(w)
        PROVE  WorkerOK'
    BY <1>3, GiveUpFacts DEF WorkerOK
  <1>4. ASSUME NEW s \in Slots, StartBinding(s)
        PROVE  WorkerOK'
    BY <1>4, StartBindingFacts DEF WorkerOK
  <1>5. ASSUME NEW s \in Slots, bind(s) \/ finishBinding(s)
        PROVE  WorkerOK'
    BY <1>5, BindingFacts DEF WorkerOK
  <1>6. ASSUME NEW w \in Workers, RecordFailure(w)
        PROVE  WorkerOK'
    BY <1>6, FailureFacts DEF RecordFailure, WorkerOK
  <1> QED BY <1>1, <1>2, <1>3, <1>4, <1>5, <1>6, WorkerCases
    DEF BindingCycle, ReserveFails, PermitFails, BindFails

-----------------------------------------------------------------------------
(* The pods in the API server and the informer.                            *)

\* Only a pending pod is bound or starts to be deleted, and nothing comes back.
LEMMA ApiForward ==
    ASSUME TypeOK, WorkerOK, [Next]_vars, NEW p \in Pods
    PROVE  /\ api'[p] = "pending" => api[p] = "pending"
           /\ api'[p] \in Unassigned => api[p] \in Unassigned
  <1>1. ASSUME NEW s \in Slots, bind(s)
        PROVE  api'[p] = api[p] \/ api'[p] \in Nodes
    BY <1>1 DEF bind, WorkerOK, Assuming, Workers, TypeOK
  <1>2. ASSUME NEW q \in Pods, ApiChanges(q)
        PROVE  /\ api'[p] = "pending" => api[p] = "pending"
               /\ api'[p] \in Unassigned => api[p] \in Unassigned
    BY <1>2, StateAssumption DEF ApiChanges, TypeOK, Unassigned
  <1>3. CASE UNCHANGED api
    BY <1>3
  <1> QED BY <1>1, <1>2, <1>3, PodsChange, StateAssumption
    DEF PodStep, InformerStores, Notified, Unassigned

\* The informer's trail of a pod is extended at its end.
LEMMA TrailGrows ==
    ASSUME TypeOK, [Next]_vars, NEW p \in Pods
    PROVE  /\ Len(trail[p]) \in Nat /\ Len(trail'[p]) \in Nat
           /\ \/ trail'[p] = trail[p]
              \/ /\ trail'[p] = Append(trail[p], api[p])
                 /\ UNCHANGED <<api, seen>>
           /\ Len(trail[p]) <= Len(trail'[p])
           /\ \A k \in 1..Len(trail[p]) : trail'[p][k] = trail[p][k]
  <1>1. trail[p] \in Seq(PodState) /\ api[p] \in PodState
    BY DEF TypeOK
  <1>2. \/ trail'[p] = trail[p]
        \/ trail'[p] = Append(trail[p], api[p]) /\ UNCHANGED <<api, seen>>
    <2>1. ASSUME NEW q \in Pods, InformerStores(q)
          PROVE  \/ trail'[p] = trail[p]
                 \/ trail'[p] = Append(trail[p], api[p]) /\ UNCHANGED <<api, seen>>
      BY <2>1 DEF InformerStores, TypeOK
    <2> QED BY <2>1, PodsChange DEF PodStep, bind, ApiChanges, Notified
  <1> QED BY <1>1, <1>2

\* A handler is shown at most what the informer stored.
LEMMA SeenGrows ==
    ASSUME TypeOK, [Next]_vars, NEW h \in Handlers, NEW p \in Pods
    PROVE  /\ seen[h][p] \in Nat /\ seen'[h][p] \in Nat
           /\ \/ seen'[h][p] = seen[h][p]
              \/ /\ Notified(h, p)
                 /\ seen'[h][p] = seen[h][p] + 1 /\ seen[h][p] < Len(trail[p])
                 /\ UNCHANGED <<api, trail>>
  <1>1. seen[h][p] \in Nat
    BY DEF TypeOK
  <1>2. ASSUME NEW g \in Handlers, NEW q \in Pods, Notified(g, q)
        PROVE  \/ seen'[h][p] = seen[h][p]
               \/ /\ Notified(h, p)
                  /\ seen'[h][p] = seen[h][p] + 1 /\ seen[h][p] < Len(trail[p])
                  /\ UNCHANGED <<api, trail>>
    <2>1. CASE g = h /\ q = p
      BY <1>2, <2>1 DEF Notified, TypeOK
    <2>2. CASE ~ (g = h /\ q = p)
      BY <1>2, <2>2 DEF Notified, TypeOK
    <2> QED BY <2>1, <2>2
  <1>3. CASE UNCHANGED seen
    BY <1>1, <1>3
  <1> QED BY <1>1, <1>2, <1>3, PodsChange DEF PodStep, bind, ApiChanges, InformerStores

\* Handlers stay behind the informer, and a pod that is not bound never was.
LEMMA TrailKeeps ==
    ASSUME TypeOK, WorkerOK, TrailOK, [Next]_vars
    PROVE  TrailOK'
  <1> SUFFICES ASSUME NEW p \in Pods
               PROVE  /\ \A h \in Handlers : seen'[h][p] <= Len(trail'[p])
                      /\ \A k \in 1..Len(trail'[p]) :
                            /\ api'[p] = "pending" => trail'[p][k] = "pending"
                            /\ api'[p] \in Unassigned => trail'[p][k] \in Unassigned
    BY DEF TrailOK, Unassigned
  <1>1. ASSUME NEW h \in Handlers
        PROVE  seen'[h][p] <= Len(trail'[p])
    BY TrailGrows, SeenGrows DEF TrailOK
  <1>2. ASSUME NEW k \in 1..Len(trail'[p])
        PROVE  /\ api'[p] = "pending" => trail'[p][k] = "pending"
               /\ api'[p] \in Unassigned => trail'[p][k] \in Unassigned
    <2>1. CASE k \in 1..Len(trail[p])
      BY <2>1, TrailGrows, ApiForward DEF TrailOK
    <2>2. CASE k \notin 1..Len(trail[p])
      <3>1. trail'[p] = Append(trail[p], api[p]) /\ UNCHANGED api
        BY <2>2, TrailGrows
      <3>2. trail'[p][k] = api[p]
        BY <2>2, <3>1 DEF TypeOK
      <3> QED BY <3>1, <3>2
    <2> QED BY <2>1, <2>2
  <1> QED BY <1>1, <1>2

\* What a handler was shown last changes only when it is notified.
LEMMA ShownKeeps ==
    ASSUME TypeOK, TrailOK, [Next]_vars, NEW h \in Handlers, NEW p \in Pods
    PROVE  \/ SeenBy(h, p)' = SeenBy(h, p)
           \/ Notified(h, p) /\ SeenBy(h, p)' = After(h, p)
  <1>1. seen[h][p] \in Nat /\ seen[h][p] <= Len(trail[p]) /\ Len(trail[p]) \in Nat
    BY DEF TypeOK, TrailOK
  <1>2. CASE seen'[h][p] = seen[h][p]
    <2>1. seen[h][p] # 0 => trail'[p][seen[h][p]] = trail[p][seen[h][p]]
      BY <1>1, TrailGrows
    <2> QED BY <1>2, <2>1 DEF SeenBy, Shown
  <1>3. CASE Notified(h, p) /\ seen'[h][p] = seen[h][p] + 1 /\ UNCHANGED trail
    BY <1>1, <1>3 DEF SeenBy, Shown, After
  <1> QED BY <1>2, <1>3, SeenGrows

-----------------------------------------------------------------------------
(* The pods in the queue and at the workers.                               *)

\* What the queue's operations do to the set of queued pods.
LEMMA QueuedEffects ==
    ASSUME QueueInv, NEW p \in Pods
    PROVE  /\ \A nnn : Add(p, nnn) => Queued' = Queued \cup {p}
           /\ \A oldNnn, nnn, updated :
                 Update(p, oldNnn, nnn, updated) => Queued' = Queued \cup {p}
           /\ Delete(p) => Queued' = Queued \ {p}
           /\ Pop(p) => Queued' = Queued \ {p} /\ p \in Queued
           /\ \A moveSeen, nnn :
                 AddUnschedulableIfNotPresent(p, moveSeen, nnn) =>
                     Queued' = Queued \cup {p}
           /\ \A S \in SUBSET unschedulableQ :
                 movePodsToActiveOrBackoffQueue(S) => Queued' = Queued
           /\ flushBackoffQCompleted => Queued' = Queued
  <1> QueueTypeOK /\ OneQueue
    BY DEF QueueInv
  <1>1. \A nnn : Add(p, nnn) => Queued' = Queued \cup {p}
    BY DEF Add, Queued
  <1>2. \A oldNnn, nnn, updated :
           Update(p, oldNnn, nnn, updated) => Queued' = Queued \cup {p}
    BY <1>1 DEF Update, Queued
  <1>3. Delete(p) => Queued' = Queued \ {p}
    BY DEF Delete, Queued, OneQueue
  <1>4. Pop(p) => Queued' = Queued \ {p} /\ p \in Queued
    BY DEF Pop, Queued, OneQueue
  <1>5. \A moveSeen, nnn : AddUnschedulableIfNotPresent(p, moveSeen, nnn) =>
                               Queued' = Queued \cup {p}
    BY DEF AddUnschedulableIfNotPresent, queueVars, Queued
  <1>6. \A S \in SUBSET unschedulableQ :
           movePodsToActiveOrBackoffQueue(S) => Queued' = Queued
    BY DEF movePodsToActiveOrBackoffQueue, Queued
  <1>7. flushBackoffQCompleted => Queued' = Queued
    BY DEF flushBackoffQCompleted, Queued
  <1> QED BY <1>1, <1>2, <1>3, <1>4, <1>5, <1>6, <1>7

\* The steps that change which pods are queued.
LEMMA QueuedCases ==
    ASSUME TypeOK, QueueInv, WorkerOK, [Next]_vars
    PROVE  \/ Queued' = Queued
           \/ \E p \in Pods : NextPod(p) /\ p \in Queued /\ Queued' = Queued \ {p}
           \/ \E w \in Workers : /\ ErrorRequeues(w) /\ worker[w].pod \in Pods
                                 /\ Queued' = Queued \cup {worker[w].pod}
           \/ \E p \in Pods : /\ \/ addPodToSchedulingQueue(p)
                                 \/ \E u \in BOOLEAN : updatePodInSchedulingQueue(p, u)
                              /\ Queued' = Queued \cup {p}
           \/ \E p \in Pods : /\ deletePodFromSchedulingQueue(p)
                              /\ Queued' = Queued \ {p}
  <1>1. CASE UNCHANGED <<activeQ, podBackoffQ, unschedulableQ>>
    BY <1>1 DEF Queued
  <1>2. CASE \/ UNCHANGED vars
             \/ NextPodWaits
             \/ \E p \in Pods : \/ skipPodSchedule(p) \/ assumeFails(p)
                                \/ \E n \in NodeName : ScheduleFails(p, n)
                                \/ \E n \in Nodes : assume(p, n)
             \/ ReserveFails
             \/ \E s \in Slots : StartBinding(s) \/ BindingCycle(s)
             \/ \E w \in Workers : ErrorReadsLister(w) \/ RecordNomination(w)
             \/ \E p \in Pods : \/ ApiChanges(p) \/ InformerStores(p) \/ QueueFilters(p)
                                \/ CacheHandler(p) \/ ExpirePod(p)
             \/ NodeChanges
    <2>1. UNCHANGED <<activeQ, podBackoffQ, unschedulableQ>>
      BY <1>2 DEF vars, queueVars, NextPodWaits, Wait, skipPodSchedule, assumeFails,
        ScheduleFails, assume, DeleteNominatedPodIfExists, ReserveFails, GiveUp,
        StartBinding, BindingCycle, PermitFails, bind, finishBinding, BindFails,
        ErrorReadsLister, RecordNomination, AddNominatedPod, ApiChanges,
        InformerStores, QueueFilters, CacheHandler, addPodToCache, updatePodInCache,
        deletePodFromCache, CacheFilters, ExpirePod, NodeChanges
    <2> QED BY <1>1, <2>1
  <1>3. ASSUME NEW p \in Pods, NextPod(p)
        PROVE  p \in Queued /\ Queued' = Queued \ {p}
    BY <1>3, QueuedEffects DEF NextPod
  <1>4. ASSUME NEW w \in Workers, ErrorRequeues(w)
        PROVE  worker[w].pod \in Pods /\ Queued' = Queued \cup {worker[w].pod}
    BY <1>4, BusyWorker, QueuedEffects DEF ErrorRequeues
  <1>5. ASSUME NEW p \in Pods, addPodToSchedulingQueue(p)
        PROVE  Queued' = Queued \cup {p}
    BY <1>5, QueuedEffects DEF addPodToSchedulingQueue
  <1>6. ASSUME NEW p \in Pods, NEW u \in BOOLEAN, updatePodInSchedulingQueue(p, u)
        PROVE  Queued' = Queued \/ Queued' = Queued \cup {p}
    <2>1. CASE UNCHANGED queueVars
      BY <2>1 DEF queueVars, Queued
    <2>2. CASE \E oldNnn, nnn \in Copies(p) : Update(p, oldNnn, nnn, u)
      BY <2>2, QueuedEffects
    <2> QED BY <1>6, <2>1, <2>2 DEF updatePodInSchedulingQueue
  <1>7. ASSUME NEW p \in Pods, deletePodFromSchedulingQueue(p)
        PROVE  Queued' = Queued \ {p}
    BY <1>7, QueuedEffects DEF deletePodFromSchedulingQueue
  <1>8. ASSUME NEW S \in SUBSET unschedulableQ, movePodsToActiveOrBackoffQueue(S)
        PROVE  Queued' = Queued
    BY <1>8 DEF movePodsToActiveOrBackoffQueue, Queued
  <1>9. CASE AssignedPodMoves \/ AssignedPodDeleteMoves \/ NodeMoves
    BY <1>8, <1>9 DEF AssignedPodMoves, AssignedPodDeleteMoves, NodeMoves,
      AssignedPodAddedOrUpdated, MoveAllToActiveOrBackoffQueue
  <1>10. CASE \E S \in SUBSET unschedulableQ : FlushLeftover(S)
    BY <1>8, <1>10 DEF FlushLeftover, flushUnschedulableQLeftover
  <1>11. CASE Flush
    BY <1>11 DEF Flush, BackoffEnds, flushBackoffQCompleted, Queued
  <1>12. CASE SchedulingCycle
    BY <1>2, <1>3, <1>12 DEF SchedulingCycle
  <1>13. CASE \E w \in Workers : RecordFailure(w)
    BY <1>2, <1>4, <1>13 DEF RecordFailure
  <1>14. CASE \E p \in Pods : QueueHandler(p)
    BY <1>2, <1>5, <1>6, <1>7, <1>14 DEF QueueHandler
  <1> QED BY <1>2, <1>9, <1>10, <1>11, <1>12, <1>13, <1>14 DEF Next

\* A worker gets a pod from the queue or from the loop.
LEMMA HeldCases ==
    ASSUME TypeOK, WorkerOK, [Next]_vars, NEW w \in Workers, NEW p \in Pods,
           HeldBy(w, p)'
    PROVE  NextPod(p) \/ \E v \in Workers : HeldBy(v, p)
  <1> "loop" \in Workers /\ Slots \subseteq Workers /\ NoPod # p
    BY NoPodAssumption DEF Workers
  <1> USE DEF OthersStay, HeldBy
  <1>1. CASE worker' \in {worker, MoveNoted}
    BY <1>1, MoveNotedFacts
  <1>2. CASE \E q \in Pods : \/ NextPod(q) \/ skipPodSchedule(q) \/ assumeFails(q)
                             \/ \E n \in NodeName : ScheduleFails(q, n)
                             \/ \E n \in Nodes : assume(q, n)
    BY <1>2, LoopFacts
  <1>3. ASSUME NEW v \in Workers, GiveUp(v)
        PROVE  \E u \in Workers : HeldBy(u, p)
    BY <1>3, GiveUpFacts
  <1>4. CASE \E s \in Slots : StartBinding(s)
    BY <1>4, StartBindingFacts
  <1>5. CASE \E s \in Slots : bind(s) \/ finishBinding(s)
    BY <1>5, BindingFacts
  <1>6. CASE \E v \in Workers : RecordFailure(v)
    BY <1>6, FailureFacts DEF RecordFailure
  <1> QED BY <1>1, <1>2, <1>3, <1>4, <1>5, <1>6, WorkerCases
    DEF BindingCycle, ReserveFails, PermitFails, BindFails

\* The queue's handler was told of every pod the queue or a worker has.
LEMMA ToldKeeps ==
    ASSUME TypeOK, QueueInv, WorkerOK, TrailOK, Told, [Next]_vars
    PROVE  Told'
  <1> SUFFICES ASSUME NEW p \in Pods,
                      p \in Queued' \/ \E w \in Workers : HeldBy(w, p)'
               PROVE  seen'["queue"][p] > 0
    BY DEF Told, HeldBy
  <1> "queue" \in Handlers
    BY DEF Handlers
  <1>1. /\ seen["queue"][p] \in Nat
        /\ seen["queue"][p] > 0 => seen'["queue"][p] > 0
    BY SeenGrows
  <1>2. CASE p \in Queued \/ \E w \in Workers : HeldBy(w, p)
    BY <1>1, <1>2 DEF Told
  <1>3. CASE addPodToSchedulingQueue(p)
    BY <1>3 DEF addPodToSchedulingQueue, Notified, TypeOK
  <1>4. ASSUME NEW u \in BOOLEAN, updatePodInSchedulingQueue(p, u)
        PROVE  seen["queue"][p] > 0
    <2>1. SeenBy("queue", p) # "absent"
      BY <1>4 DEF updatePodInSchedulingQueue, Before, Unassigned
    <2> QED BY <1>1, <2>1 DEF SeenBy, Shown
  <1>5. ASSUME NEW w \in Workers, HeldBy(w, p)'
        PROVE  p \in Queued \/ \E v \in Workers : HeldBy(v, p)
    BY <1>5, HeldCases, QueuedEffects DEF NextPod
  <1>6. CASE p \in Queued'
    BY <1>1, <1>2, <1>3, <1>4, <1>6, QueuedCases DEF HeldBy
  <1> QED BY <1>2, <1>5, <1>6

-----------------------------------------------------------------------------
(* The cache.                                                              *)

\* No operation of the interface leaves a pod accounted for twice, or a pod the
\* cache does not have accounted for at all.
LEMMA AccountedKeeps ==
    ASSUME CacheTypeOK, AccountedOnce, [Cache!Next]_cacheVars
    PROVE  AccountedOnce'
  <1> USE DEF CacheTypeOK, AccountedOnce, Cache!Subtracted
  <1>1. ASSUME NEW p \in Pods, Cache!FinishBinding(p)
        PROVE  AccountedOnce'
    BY <1>1 DEF Cache!FinishBinding
  <1>2. ASSUME NEW p \in Pods, Cache!Forget(p) \/ Cache!Remove(p)
        PROVE  AccountedOnce'
    BY <1>2 DEF Cache!Forget, Cache!Remove
  <1>3. ASSUME NEW p \in Pods, NEW n \in Nodes, Cache!Assume(p, n)
        PROVE  AccountedOnce'
    BY <1>3 DEF Cache!Assume
  <1>4. ASSUME NEW p \in Pods, NEW n \in Nodes, Cache!Add(p, n)
        PROVE  AccountedOnce'
    BY <1>4 DEF Cache!Add
  <1>5. CASE UNCHANGED cacheVars
    BY <1>5 DEF cacheVars
  <1> QED BY <1>1, <1>2, <1>3, <1>4, <1>5 DEF Cache!Next, Cache!Expire

\* Only the cache's handler and the watch decide which pods are added.
LEMMA WatchKeeps ==
    ASSUME TypeOK, WorkerOK, TrailOK, CacheFollowsWatch, [Next]_vars
    PROVE  CacheFollowsWatch'
  <1> SUFFICES ASSUME NEW q \in Pods
               PROVE  /\ phase'[q] = "Added" <=> SeenBy("cache", q)' \in Nodes
                      /\ phase'[q] = "Added" => q \in aggregated'[SeenBy("cache", q)']
    BY DEF CacheFollowsWatch
  <1> "cache" \in Handlers /\ "queue" \in Handlers
    BY DEF Handlers
  <1>0. /\ phase \in [Pods -> {"Absent", "Assumed", "Added"}]
        /\ aggregated \in [Nodes -> SUBSET Pods]
        /\ seen \in [Handlers -> [Pods -> Nat]]
    BY DEF TypeOK
  <1>1. CASE SeenBy("cache", q)' = SeenBy("cache", q) /\ CacheStepOfWorker
    BY <1>0, <1>1 DEF CacheStepOfWorker, assume, CacheFollowsWatch, cacheVars,
      Cache!FinishBinding, Cache!Forget, Cache!Assume, Cache!Subtracted
  <1>2. ASSUME UNCHANGED seen \/ \E p \in Pods : Notified("queue", p)
        PROVE  SeenBy("cache", q)' = SeenBy("cache", q)
    <2>1. seen'["cache"][q] = seen["cache"][q]
      BY <1>0, <1>2 DEF Notified
    <2>2. ~ Notified("cache", q)
      BY <1>0, <2>1 DEF Notified
    <2> QED BY <2>2, ShownKeeps
  <1>3. ASSUME NEW p \in Pods, p # q, Notified("cache", p)
        PROVE  SeenBy("cache", q)' = SeenBy("cache", q)
    <2>1. seen'["cache"][q] = seen["cache"][q]
      BY <1>0, <1>3 DEF Notified
    <2>2. ~ Notified("cache", q)
      BY <1>0, <2>1 DEF Notified
    <2> QED BY <2>2, ShownKeeps
  <1>4. ASSUME NEW p \in Pods, Notified("cache", p)
        PROVE  SeenBy("cache", p)' = After("cache", p)
    BY <1>0, <1>4 DEF Notified, SeenBy, After, Shown
  <1>5. ASSUME NEW p \in Pods, addPodToCache(p)
        PROVE  /\ phase'[q] = "Added" <=> SeenBy("cache", q)' \in Nodes
               /\ phase'[q] = "Added" => q \in aggregated'[SeenBy("cache", q)']
    <2>1. /\ Notified("cache", p) /\ After("cache", p) \in Nodes
          /\ Cache!Add(p, After("cache", p))
      BY <1>5 DEF addPodToCache
    <2>2. CASE q = p
      BY <1>0, <1>4, <2>1, <2>2 DEF Cache!Add, Cache!Subtracted
    <2>3. CASE q # p
      <3>1. /\ phase'[q] = phase[q]
            /\ \A n \in Nodes : q \in aggregated[n] => q \in aggregated'[n]
        BY <1>0, <2>1, <2>3 DEF Cache!Add, Cache!Subtracted
      <3> QED BY <1>3, <2>1, <2>3, <3>1 DEF CacheFollowsWatch
    <2> QED BY <2>2, <2>3
  <1>6. ASSUME NEW p \in Pods, deletePodFromCache(p)
        PROVE  /\ phase'[q] = "Added" <=> SeenBy("cache", q)' \in Nodes
               /\ phase'[q] = "Added" => q \in aggregated'[SeenBy("cache", q)']
    <2>1. /\ Notified("cache", p) /\ After("cache", p) \notin Nodes
          /\ Cache!Remove(p)
      BY <1>6 DEF deletePodFromCache
    <2>2. CASE q = p
      BY <1>0, <1>4, <2>1, <2>2 DEF Cache!Remove
    <2>3. CASE q # p
      <3>1. /\ phase'[q] = phase[q]
            /\ \A n \in Nodes : q \in aggregated[n] => q \in aggregated'[n]
        BY <1>0, <2>1, <2>3 DEF Cache!Remove, Cache!Subtracted
      <3> QED BY <1>3, <2>1, <2>3, <3>1 DEF CacheFollowsWatch
    <2> QED BY <2>2, <2>3
  <1>7. ASSUME NEW p \in Pods, CacheFilters(p)
        PROVE  /\ phase'[q] = "Added" <=> SeenBy("cache", q)' \in Nodes
               /\ phase'[q] = "Added" => q \in aggregated'[SeenBy("cache", q)']
    <2>1. /\ Notified("cache", p) /\ After("cache", p) \notin Nodes
          /\ SeenBy("cache", p) \notin Nodes
          /\ UNCHANGED <<phase, aggregated>>
      BY <1>7 DEF CacheFilters, Before, cacheVars
    <2>2. CASE q = p
      BY <1>4, <2>1, <2>2 DEF CacheFollowsWatch
    <2>3. CASE q # p
      BY <1>3, <2>1, <2>3 DEF CacheFollowsWatch
    <2> QED BY <2>2, <2>3
  <1> QED BY <1>1, <1>2, <1>5, <1>6, <1>7, CacheCases

\* A worker comes to "bound" by a bind call that succeeded.
LEMMA NewlyBound ==
    ASSUME TypeOK, WorkerOK, [Next]_vars, NEW w \in Workers, worker'[w].step = "bound"
    PROVE  \/ worker[w].step = "bound" /\ worker'[w].pod = worker[w].pod
           \/ w \in Slots /\ bind(w)
  <1> "loop" \in Workers /\ Slots \subseteq Workers
    BY DEF Workers
  <1> USE DEF OthersStay
  <1>1. CASE worker' \in {worker, MoveNoted}
    BY <1>1, MoveNotedFacts
  <1>2. CASE \E q \in Pods : \/ NextPod(q) \/ skipPodSchedule(q) \/ assumeFails(q)
                             \/ \E n \in NodeName : ScheduleFails(q, n)
                             \/ \E n \in Nodes : assume(q, n)
    BY <1>2, LoopFacts
  <1>3. ASSUME NEW v \in Workers, GiveUp(v)
        PROVE  worker[w].step = "bound" /\ worker'[w].pod = worker[w].pod
    BY <1>3, GiveUpFacts
  <1>4. CASE \E s \in Slots : StartBinding(s)
    BY <1>4, StartBindingFacts
  <1>5. CASE \E s \in Slots : bind(s) \/ finishBinding(s)
    BY <1>5, BindingFacts
  <1>6. CASE \E v \in Workers : RecordFailure(v)
    BY <1>6, FailureFacts DEF RecordFailure
  <1> QED BY <1>1, <1>2, <1>3, <1>4, <1>5, <1>6, WorkerCases
    DEF BindingCycle, ReserveFails, PermitFails, BindFails

\* A bound pod does not become pending again.
LEMMA BoundKeeps ==
    ASSUME TypeOK, WorkerOK, BoundOK, [Next]_vars
    PROVE  BoundOK'
  <1> SUFFICES ASSUME NEW w \in Workers, worker'[w].step = "bound"
               PROVE  api'[worker'[w].pod] \notin Unassigned
    BY DEF BoundOK, Unassigned
  <1>1. CASE worker[w].step = "bound" /\ worker'[w].pod = worker[w].pod
    BY <1>1, ApiForward, BusyWorker DEF BoundOK
  <1>2. CASE w \in Slots /\ bind(w)
    <2>1. /\ worker[w].step = "binding"
          /\ worker[w].pod \in Pods /\ worker[w].node \in Nodes
          /\ worker'[w].pod = worker[w].pod
      BY <1>2, BindingFacts, BusyWorker DEF WorkerOK, Assuming
    <2>2. ~ To(w, "refused")
      BY ToFacts DEF Step
    <2>3. api'[worker[w].pod] = worker[w].node
      BY <1>2, <2>1, <2>2 DEF bind, TypeOK
    <2> QED BY <2>1, <2>3, StateAssumption DEF Unassigned
  <1> QED BY <1>1, <1>2, NewlyBound

\* An assumption has its worker until the worker takes it back, the binding
\* finishes after a bind that succeeded, or the cache drops it.
LEMMA AssumedKeeps ==
    ASSUME TypeOK, WorkerOK, BoundOK, AssumedOK, [Next]_vars
    PROVE  AssumedOK'
  <1> DEFINE Owner(w, p) == /\ HeldBy(w, p) /\ worker[w].step \in Assuming
                            /\ p \in aggregated[worker[w].node]
  <1> SUFFICES ASSUME NEW p \in Pods, phase'[p] = "Assumed"
               PROVE  \/ \E w \in Workers : Owner(w, p)'
                      \/ p \in expirable' /\ api'[p] \notin Unassigned
    BY DEF AssumedOK, Unassigned, HeldBy, Assuming
  <1> "loop" \in Workers /\ Slots \subseteq Workers
    BY DEF Workers
  <1>0. /\ phase \in [Pods -> {"Absent", "Assumed", "Added"}]
        /\ aggregated \in [Nodes -> SUBSET Pods]
    BY DEF TypeOK
  <1>1. ASSUME NEW n \in Nodes, assume(p, n)
        PROVE  Owner("loop", p)'
    <2>1. p \in aggregated'[n]
      BY <1>0, <1>1 DEF assume, Cache!Assume
    <2> QED BY <1>1, <2>1, LoopFacts DEF HeldBy, Assuming
  <1>2. CASE ~ \E n \in Nodes : assume(p, n)
    <2>1. /\ phase[p] = "Assumed"
          /\ \A n \in Nodes : p \in aggregated[n] => p \in aggregated'[n]
          /\ p \in expirable => p \in expirable'
      <3>1. CASE CacheStepOfWorker
        BY <1>0, <1>2, <3>1 DEF CacheStepOfWorker, assume, cacheVars, Cache!Assume,
          Cache!FinishBinding, Cache!Forget, Cache!Subtracted
      <3>2. CASE \E q \in Pods : addPodToCache(q)
        BY <1>0, <3>2 DEF addPodToCache, Cache!Add, Cache!Subtracted
      <3>3. CASE \E q \in Pods : deletePodFromCache(q) \/ CacheFilters(q)
        BY <1>0, <3>3 DEF deletePodFromCache, CacheFilters, cacheVars, Cache!Remove,
          Cache!Subtracted
      <3> QED BY <3>1, <3>2, <3>3, CacheCases
    <2>2. CASE p \in expirable /\ api[p] \notin Unassigned
      BY <2>1, <2>2, ApiForward
    <2>3. ASSUME NEW w \in Workers, Owner(w, p)
          PROVE  \/ \E v \in Workers : Owner(v, p)'
                 \/ p \in expirable' /\ api'[p] \notin Unassigned
      <3>1. worker[w].node \in Nodes /\ worker[w].pod = p /\ worker[w].step \in Assuming
        BY <2>3 DEF WorkerOK, HeldBy
      <3>2. ASSUME NEW v \in Workers, worker'[v].step \in Assuming,
                   worker'[v].pod = p, worker'[v].node = worker[w].node
            PROVE  Owner(v, p)'
        BY <2>1, <2>3, <3>1, <3>2 DEF HeldBy, Assuming
      <3>3. CASE worker' \in {worker, MoveNoted}
        BY <3>1, <3>2, <3>3, MoveNotedFacts
      <3>4. CASE worker'[w] = worker[w]
        BY <3>1, <3>2, <3>4
      <3>5. CASE \E q \in Pods : \/ NextPod(q) \/ skipPodSchedule(q) \/ assumeFails(q)
                                 \/ \E n \in NodeName : ScheduleFails(q, n)
                                 \/ \E n \in Nodes : assume(q, n)
        BY <3>1, <3>4, <3>5, LoopFacts DEF OthersStay, Assuming
      <3>6. ASSUME NEW v \in Workers, GiveUp(v)
            PROVE  worker'[w] = worker[w]
        <4>1. CASE v = w
          <5>1. Cache!Forget(p)
            BY <2>1, <2>3, <3>1, <3>6, <4>1 DEF GiveUp, ForgetPod
          <5> QED BY <1>0, <5>1 DEF Cache!Forget
        <4> QED BY <3>6, <4>1, GiveUpFacts DEF OthersStay
      <3>7. CASE \E s \in Slots : StartBinding(s)
        BY <3>1, <3>2, <3>4, <3>7, StartBindingFacts DEF Assuming
      <3>8. CASE \E s \in Slots : bind(s)
        BY <3>1, <3>2, <3>4, <3>8, BindingFacts DEF OthersStay, Assuming
      <3>9. ASSUME NEW s \in Slots, finishBinding(s)
            PROVE  \/ \E v \in Workers : Owner(v, p)'
                   \/ p \in expirable' /\ api'[p] \notin Unassigned
        <4>1. CASE s = w /\ worker[w].step = "bound"
          <5>1. p \in expirable' /\ UNCHANGED api
            BY <2>1, <3>1, <3>9, <4>1 DEF finishBinding, podVars, Cache!FinishBinding
          <5> QED BY <3>1, <4>1, <5>1 DEF BoundOK
        <4>2. CASE s = w /\ worker[w].step # "bound"
          BY <3>1, <3>2, <3>9, <4>2, BindingFacts DEF Assuming
        <4>3. CASE s # w
          BY <3>4, <3>9, <4>3, BindingFacts DEF OthersStay
        <4> QED BY <4>1, <4>2, <4>3
      <3>10. CASE \E v \in Workers : RecordFailure(v)
        BY <3>1, <3>4, <3>10, FailureFacts DEF RecordFailure, OthersStay, Assuming
      <3> QED BY <3>3, <3>4, <3>5, <3>6, <3>7, <3>8, <3>9, <3>10, WorkerCases
        DEF BindingCycle, ReserveFails, PermitFails, BindFails
    <2> QED BY <2>1, <2>2, <2>3 DEF AssumedOK
  <1> QED BY <1>1, <1>2

-----------------------------------------------------------------------------
(* No pod is lost.                                                         *)

\* Only the handler of unassigned pods takes the queue's notifications.
LEMMA QueueNotified ==
    ASSUME TypeOK, [Next]_vars, NEW p \in Pods, Notified("queue", p)
    PROVE  QueueHandler(p)
  <1> "queue" \in Handlers /\ "cache" \in Handlers
    BY DEF Handlers
  <1>0. seen'["queue"][p] # seen["queue"][p]
    BY DEF Notified, TypeOK
  <1>1. ASSUME NEW q \in Pods, Notified("cache", q)
        PROVE  FALSE
    BY <1>0, <1>1 DEF Notified, TypeOK
  <1>2. ASSUME NEW q \in Pods, QueueHandler(q)
        PROVE  q = p
    <2>1. Notified("queue", q) \/ UNCHANGED seen
      BY <1>2 DEF QueueHandler, addPodToSchedulingQueue, updatePodInSchedulingQueue,
        deletePodFromSchedulingQueue, QueueFilters, podVars
    <2> QED BY <1>0, <2>1 DEF Notified, TypeOK
  <1>3. ~ UNCHANGED seen
    BY <1>0
  <1>4. \E q \in Pods : QueueHandler(q) \/ Notified("cache", q)
    BY <1>3 DEF Next, vars, podVars, SchedulingCycle, NextPodWaits, NextPod,
      skipPodSchedule, ScheduleFails, assume, assumeFails, ReserveFails, GiveUp,
      StartBinding, BindingCycle, PermitFails, bind, finishBinding, BindFails,
      RecordFailure, ErrorReadsLister, ErrorRequeues, RecordNomination, ApiChanges,
      InformerStores, CacheHandler, addPodToCache, updatePodInCache,
      deletePodFromCache, CacheFilters, ExpirePod, AssignedPodMoves,
      AssignedPodDeleteMoves, NodeChanges, NodeMoves, Flush, FlushLeftover
  <1> QED BY <1>1, <1>2, <1>4

\* A pod that is pending in the API server is so wherever it shows.
LEMMA PendingShows ==
    ASSUME TypeOK, TrailOK, NEW p \in Pods, api[p] = "pending"
    PROVE  /\ \A h \in Handlers : SeenBy(h, p) \in {"absent", "pending"}
           /\ \A h \in Handlers : SeenBy(h, p) = "pending" => lister(p) = "pending"
           /\ \A h \in Handlers : seen[h][p] > 0 => lister(p) = "pending"
           /\ \A h \in Handlers : Notified(h, p) => After(h, p) = "pending"
  <1> SUFFICES ASSUME NEW h \in Handlers
               PROVE  /\ SeenBy(h, p) \in {"absent", "pending"}
                      /\ SeenBy(h, p) = "pending" => lister(p) = "pending"
                      /\ seen[h][p] > 0 => lister(p) = "pending"
                      /\ Notified(h, p) => After(h, p) = "pending"
    OBVIOUS
  <1>1. /\ seen[h][p] \in Nat /\ Len(trail[p]) \in Nat /\ seen[h][p] <= Len(trail[p])
        /\ \A k \in 1..Len(trail[p]) : trail[p][k] = "pending"
    BY DEF TypeOK, TrailOK
  <1>2. SeenBy(h, p) \in {"absent", "pending"}
    BY <1>1 DEF SeenBy, Shown
  <1>3. seen[h][p] > 0 => lister(p) = "pending"
    BY <1>1 DEF lister, Shown
  <1>4. SeenBy(h, p) = "pending" => seen[h][p] > 0
    BY <1>1 DEF SeenBy, Shown
  <1>5. Notified(h, p) => After(h, p) = "pending"
    BY <1>1 DEF Notified, After, Shown
  <1> QED BY <1>2, <1>3, <1>4, <1>5

\* A worker that is at a pending pod goes on with it until the pod is queued, or
\* leaves it to the worker that assumed it.
LEMMA HolderKeeps ==
    ASSUME TypeOK, QueueInv, WorkerOK, TrailOK, Told, BoundOK, AssumedOK,
           [Next]_vars, NEW p \in Pods, api[p] = "pending",
           SeenBy("queue", p) = "pending",
           NEW w \in Workers, HeldBy(w, p), worker[w].step # "nominate"
    PROVE  \/ p \in Queued'
           \/ \E v \in Workers : HeldBy(v, p)' /\ worker'[v].step # "nominate"
  <1> "loop" \in Workers /\ Slots \subseteq Workers /\ NoPod # p /\ "queue" \in Handlers
    BY NoPodAssumption DEF Workers, Handlers
  <1> USE DEF OthersStay, HeldBy
  <1>0. lister(p) = "pending" /\ api[p] \in Unassigned
    BY PendingShows DEF Unassigned
  <1>1. CASE worker' \in {worker, MoveNoted}
    BY <1>1, MoveNotedFacts
  <1>2. ASSUME NEW q \in Pods, \/ NextPod(q) \/ assumeFails(q)
                               \/ \E n \in NodeName : ScheduleFails(q, n)
                               \/ \E n \in Nodes : assume(q, n)
        PROVE  \E v \in Workers : HeldBy(v, p)' /\ worker'[v].step # "nominate"
    BY <1>2, LoopFacts DEF WorkerOK
  <1>3. ASSUME NEW q \in Pods, skipPodSchedule(q)
        PROVE  \E v \in Workers : HeldBy(v, p)' /\ worker'[v].step # "nominate"
    <2>1. CASE w # "loop"
      BY <1>3, <2>1, LoopFacts
    <2>2. CASE w = "loop"
      <3>1. q = p /\ worker["loop"].step = "popped"
        BY <1>3, <2>2, LoopFacts
      <3>2. phase[p] = "Assumed"
        BY <1>0, <1>3, <3>1 DEF skipPodSchedule, skipPodUpdate
      <3>3. PICK v \in Workers : HeldBy(v, p) /\ worker[v].step \in Assuming
        BY <1>0, <3>2 DEF AssumedOK
      <3>4. v # "loop" /\ worker[v].step # "nominate"
        BY <3>1, <3>3 DEF Assuming
      <3> QED BY <1>3, <3>3, <3>4, LoopFacts
    <2> QED BY <2>1, <2>2
  <1>4. ASSUME NEW v \in Workers, GiveUp(v)
        PROVE  \E u \in Workers : HeldBy(u, p)' /\ worker'[u].step # "nominate"
    BY <1>4, GiveUpFacts
  <1>5. CASE \E s \in Slots : StartBinding(s)
    BY <1>5, StartBindingFacts DEF WorkerOK
  <1>6. CASE \E s \in Slots : bind(s) \/ finishBinding(s)
    BY <1>0, <1>6, BindingFacts DEF BoundOK
  <1>7. ASSUME NEW v \in Workers, ErrorReadsLister(v) \/ RecordNomination(v)
        PROVE  \E u \in Workers : HeldBy(u, p)' /\ worker'[u].step # "nominate"
    BY <1>0, <1>7, FailureFacts
  <1>8. ASSUME NEW v \in Workers, ErrorRequeues(v)
        PROVE  \/ p \in Queued'
               \/ \E u \in Workers : HeldBy(u, p)' /\ worker'[u].step # "nominate"
    <2>1. CASE v = w
      BY <1>8, <2>1, QueuedEffects DEF ErrorRequeues
    <2>2. CASE v # w
      BY <1>8, <2>2, FailureFacts
    <2> QED BY <2>1, <2>2
  <1> QED BY <1>1, <1>2, <1>3, <1>4, <1>5, <1>6, <1>7, <1>8, WorkerCases
    DEF BindingCycle, ReserveFails, PermitFails, BindFails, RecordFailure

\* A pod that still is to be scheduled stays queued or held.
LEMMA NoPodLostKeeps ==
    ASSUME TypeOK, QueueInv, WorkerOK, TrailOK, Told, BoundOK, AssumedOK, NoPodLost,
           [Next]_vars
    PROVE  NoPodLost'
  <1> SUFFICES ASSUME NEW p \in Pods, SeenBy("queue", p)' = "pending",
                      api'[p] = "pending"
               PROVE  \/ p \in Queued'
                      \/ \E w \in Workers : HeldBy(w, p)' /\ worker'[w].step # "nominate"
    BY DEF NoPodLost
  <1> "loop" \in Workers /\ "queue" \in Handlers
    BY DEF Workers, Handlers
  <1>0. api[p] = "pending"
    BY ApiForward
  <1>1. CASE SeenBy("queue", p) # "pending"
    <2>1. SeenBy("queue", p) = "absent"
      BY <1>0, <1>1, PendingShows
    <2>2. Notified("queue", p) /\ After("queue", p) = "pending"
      BY <1>1, ShownKeeps
    <2>3. addPodToSchedulingQueue(p)
      BY <2>1, <2>2, QueueNotified, StateAssumption
      DEF QueueHandler, updatePodInSchedulingQueue, deletePodFromSchedulingQueue,
        QueueFilters, Before, Unassigned
    <2> QED BY <2>3, QueuedEffects DEF addPodToSchedulingQueue
  <1>2. CASE SeenBy("queue", p) = "pending"
    <2>1. CASE p \in Queued
      <3>1. CASE NextPod(p)
        BY <3>1, LoopFacts DEF HeldBy
      <3>2. ~ deletePodFromSchedulingQueue(p)
        BY <1>0, PendingShows DEF deletePodFromSchedulingQueue, Unassigned
      <3> QED BY <2>1, <3>1, <3>2, QueuedCases
    <2>2. ASSUME NEW w \in Workers, HeldBy(w, p), worker[w].step # "nominate"
          PROVE  \/ p \in Queued'
                 \/ \E v \in Workers : HeldBy(v, p)' /\ worker'[v].step # "nominate"
      BY <1>0, <1>2, <2>2, HolderKeeps
    <2> QED BY <1>0, <1>2, <2>1, <2>2 DEF NoPodLost
  <1> QED BY <1>1, <1>2

-----------------------------------------------------------------------------
(* No move is lost.                                                        *)

\* The steps in which the sub-queues stay as they are.
LEMMA QueueQuiet ==
    ASSUME [Next]_vars
    PROVE  \/ UNCHANGED <<activeQ, podBackoffQ, unschedulableQ, moved>>
           \/ \E p \in Pods : NextPod(p)
           \/ \E w \in Workers : ErrorRequeues(w)
           \/ \E p \in Pods : \/ addPodToSchedulingQueue(p)
                              \/ deletePodFromSchedulingQueue(p)
                              \/ \E u \in BOOLEAN : updatePodInSchedulingQueue(p, u)
           \/ AssignedPodMoves \/ AssignedPodDeleteMoves \/ NodeMoves
           \/ Flush
           \/ \E S \in SUBSET unschedulableQ : FlushLeftover(S)
  BY DEF Next, vars, queueVars, SchedulingCycle, NextPodWaits, Wait, skipPodSchedule,
    assumeFails, ScheduleFails, assume, DeleteNominatedPodIfExists, ReserveFails,
    GiveUp, StartBinding, BindingCycle, PermitFails, bind, finishBinding, BindFails,
    RecordFailure, ErrorReadsLister, RecordNomination, AddNominatedPod, ApiChanges,
    InformerStores, QueueHandler, QueueFilters, CacheHandler, addPodToCache,
    updatePodInCache, deletePodFromCache, CacheFilters, ExpirePod, NodeChanges

\* A pod comes to unschedulableQ only by a worker that requeues it and whose cycle
\* saw no move request.
LEMMA UnschedulableGrows ==
    ASSUME TypeOK, QueueInv, WorkerOK, [Next]_vars, NEW p \in Pods,
           p \in unschedulableQ', p \notin unschedulableQ
    PROVE  \E w \in Workers : /\ ErrorRequeues(w) /\ HeldBy(w, p) /\ p \notin Queued
                              /\ ~ worker[w].moveSeen
  <1>1. ASSUME NEW w \in Workers, ErrorRequeues(w)
        PROVE  HeldBy(w, p) /\ p \notin Queued /\ ~ worker[w].moveSeen
    <2>1. PICK nnn \in Copies(worker[w].pod) :
             AddUnschedulableIfNotPresent(worker[w].pod, worker[w].moveSeen, nnn)
      BY <1>1 DEF ErrorRequeues
    <2>2. worker[w].pod \notin Queued
      BY <2>1 DEF AddUnschedulableIfNotPresent, queueVars
    <2>3. /\ unschedulableQ' = unschedulableQ \cup {worker[w].pod}
          /\ ~ worker[w].moveSeen
      BY <2>1, <2>2 DEF AddUnschedulableIfNotPresent
    <2> QED BY <2>2, <2>3 DEF HeldBy
  <1>2. ASSUME NEW S, movePodsToActiveOrBackoffQueue(S)
        PROVE  FALSE
    BY <1>2 DEF movePodsToActiveOrBackoffQueue
  <1>3. ~ (AssignedPodMoves \/ AssignedPodDeleteMoves \/ NodeMoves
           \/ \E S \in SUBSET unschedulableQ : FlushLeftover(S))
    BY <1>2 DEF AssignedPodMoves, AssignedPodDeleteMoves, NodeMoves, FlushLeftover,
      AssignedPodAddedOrUpdated, MoveAllToActiveOrBackoffQueue,
      flushUnschedulableQLeftover
  <1>4. ~ (Flush \/ \E q \in Pods : NextPod(q))
    BY DEF Flush, BackoffEnds, flushBackoffQCompleted, NextPod, Pop
  <1>5. ASSUME NEW q \in Pods, \/ addPodToSchedulingQueue(q)
                               \/ deletePodFromSchedulingQueue(q)
                               \/ \E u \in BOOLEAN : updatePodInSchedulingQueue(q, u)
        PROVE  FALSE
    BY <1>5 DEF addPodToSchedulingQueue, deletePodFromSchedulingQueue,
      updatePodInSchedulingQueue, Add, Delete, Update, queueVars
  <1> QED BY <1>1, <1>3, <1>4, <1>5, QueueQuiet

\* Only NextPod starts a cycle that has seen no move request.
LEMMA MovedStays ==
    ASSUME [Next]_vars, moved, ~ \E p \in Pods : NextPod(p)
    PROVE  moved'
  <1>1. ASSUME NEW S, movePodsToActiveOrBackoffQueue(S)
        PROVE  moved'
    BY <1>1, Zenon DEF movePodsToActiveOrBackoffQueue
  <1>2. CASE AssignedPodMoves \/ AssignedPodDeleteMoves \/ NodeMoves
             \/ \E S \in SUBSET unschedulableQ : FlushLeftover(S)
    BY <1>1, <1>2 DEF AssignedPodMoves, AssignedPodDeleteMoves, NodeMoves,
      FlushLeftover, AssignedPodAddedOrUpdated, MoveAllToActiveOrBackoffQueue,
      flushUnschedulableQLeftover
  <1>3. CASE Flush
    BY <1>3 DEF Flush, BackoffEnds, flushBackoffQCompleted
  <1>4. CASE \E w \in Workers : ErrorRequeues(w)
    BY <1>4 DEF ErrorRequeues, AddUnschedulableIfNotPresent, queueVars
  <1>5. CASE \E p \in Pods : \/ addPodToSchedulingQueue(p)
                             \/ deletePodFromSchedulingQueue(p)
                             \/ \E u \in BOOLEAN : updatePodInSchedulingQueue(p, u)
    <2>1. \A q, nnn : Add(q, nnn) => UNCHANGED moved
      BY Zenon DEF Add
    <2>2. \A q, oldNnn, nnn, u : Update(q, oldNnn, nnn, u) => UNCHANGED moved
      BY <2>1, Zenon DEF Update
    <2>3. \A q : Delete(q) => UNCHANGED moved
      BY Zenon DEF Delete
    <2>4. UNCHANGED moved
      BY <1>5, <2>1, <2>2, <2>3, Zenon DEF addPodToSchedulingQueue,
        deletePodFromSchedulingQueue, updatePodInSchedulingQueue, queueVars
    <2> QED BY <2>4, Zenon
  <1> QED BY <1>2, <1>3, <1>4, <1>5, QueueQuiet

\* A pod that is not bound shows as such, and what a worker has is in the lister.
LEMMA UnassignedShows ==
    ASSUME TypeOK, TrailOK, Told, NEW p \in Pods, api[p] \in Unassigned
    PROVE  /\ Notified("queue", p) => After("queue", p) \in Unassigned
           /\ (\E w \in Workers : HeldBy(w, p)) => lister(p) \in Unassigned
  <1> "queue" \in Handlers
    BY DEF Handlers
  <1>1. /\ seen["queue"][p] \in Nat /\ Len(trail[p]) \in Nat
        /\ seen["queue"][p] <= Len(trail[p])
        /\ \A k \in 1..Len(trail[p]) : trail[p][k] \in Unassigned
    BY DEF TypeOK, TrailOK
  <1>2. Notified("queue", p) => After("queue", p) \in Unassigned
    BY <1>1 DEF Notified, After, Shown
  <1>3. seen["queue"][p] > 0 => lister(p) \in Unassigned
    BY <1>1 DEF lister, Shown
  <1> QED BY <1>2, <1>3 DEF Told

\* The loop at a failed pod stays there until the pod is queued.
LEMMA OnTheWayKeeps ==
    ASSUME TypeOK, QueueInv, WorkerOK, TrailOK, Told, [Next]_vars, NEW p \in Pods,
           api[p] \in Unassigned, OnTheWay(p)
    PROVE  /\ p \in Queued' \/ OnTheWay(p)'
           /\ ~ \E q \in Pods : NextPod(q)
  <1> "loop" \in Workers /\ Slots \subseteq Workers
      /\ \A s \in Slots : s # "loop"
    BY SlotsAssumption DEF Workers
  <1> USE DEF OthersStay, HeldBy, OnTheWay
  <1>0. lister(p) \in Unassigned
    BY UnassignedShows
  <1>1. ASSUME NEW q \in Pods, \/ NextPod(q) \/ skipPodSchedule(q) \/ assumeFails(q)
                               \/ \E n \in NodeName : ScheduleFails(q, n)
                               \/ \E n \in Nodes : assume(q, n)
        PROVE  FALSE
    BY <1>1, LoopFacts
  <1>2. CASE worker' \in {worker, MoveNoted}
    BY <1>2, <1>1, MoveNotedFacts
  <1>3. ASSUME NEW s \in Slots, GiveUp(s)
        PROVE  OnTheWay(p)'
    BY <1>3, GiveUpFacts
  <1>4. ~ ReserveFails /\ ~ \E s \in Slots : StartBinding(s)
    BY DEF ReserveFails, StartBinding
  <1>5. CASE \E s \in Slots : bind(s) \/ finishBinding(s)
    BY <1>1, <1>5, BindingFacts
  <1>6. ASSUME NEW v \in Workers, ErrorReadsLister(v) \/ RecordNomination(v)
        PROVE  OnTheWay(p)'
    BY <1>0, <1>6, FailureFacts DEF Unassigned
  <1>7. ASSUME NEW v \in Workers, ErrorRequeues(v)
        PROVE  p \in Queued' \/ OnTheWay(p)'
    <2>1. CASE v = "loop"
      BY <1>7, <2>1, QueuedEffects DEF ErrorRequeues
    <2>2. CASE v # "loop"
      BY <1>7, <2>2, FailureFacts
    <2> QED BY <2>1, <2>2
  <1> QED BY <1>1, <1>2, <1>3, <1>4, <1>5, <1>6, <1>7, WorkerCases
    DEF BindingCycle, PermitFails, BindFails, RecordFailure

\* A noted move request stays noted until the loop pops its next pod.
LEMMA MoveRecordedKeeps ==
    ASSUME TypeOK, WorkerOK, [Next]_vars, NEW p \in Pods, MoveRecorded(p),
           ~ \E q \in Pods : NextPod(q)
    PROVE  MoveRecorded(p)'
  <1> "loop" \in Workers /\ Slots \subseteq Workers
    BY DEF Workers
  <1> USE DEF OthersStay, HeldBy
  <1>0. moved /\ moved'
    BY MovedStays, Zenon DEF MoveRecorded
  <1> SUFFICES ASSUME NEW w \in Workers, HeldBy(w, p)', worker'[w].step = "requeue"
               PROVE  worker'[w].moveSeen
    BY <1>0, Zenon DEF MoveRecorded
  <1>1. HeldBy(w, p) /\ worker[w].step = "requeue" => worker[w].moveSeen
    BY Zenon DEF MoveRecorded
  <1>2. CASE worker' \in {worker, MoveNoted}
    BY <1>1, <1>2, MoveNotedFacts
  <1>3. CASE worker'[w] = worker[w]
    BY <1>1, <1>3
  <1>4. CASE \E q \in Pods : \/ NextPod(q) \/ skipPodSchedule(q) \/ assumeFails(q)
                             \/ \E n \in NodeName : ScheduleFails(q, n)
                             \/ \E n \in Nodes : assume(q, n)
    BY <1>3, <1>4, LoopFacts
  <1>5. ASSUME NEW v \in Workers, GiveUp(v)
        PROVE  worker'[w] = worker[w]
    BY <1>5, GiveUpFacts
  <1>6. CASE \E s \in Slots : StartBinding(s)
    BY <1>3, <1>6, StartBindingFacts
  <1>7. CASE \E s \in Slots : bind(s) \/ finishBinding(s)
    BY <1>3, <1>7, BindingFacts
  <1>8. ASSUME NEW v \in Workers, ErrorReadsLister(v)
        PROVE  worker'[w] = worker[w] \/ worker'[w].moveSeen = moved
    BY <1>8, FailureFacts
  <1>9. CASE \E v \in Workers : ErrorRequeues(v) \/ RecordNomination(v)
    BY <1>3, <1>9, FailureFacts
  <1>10. CASE \E v \in Workers : ErrorReadsLister(v)
    BY <1>0, <1>3, <1>8, <1>10
  <1> QED BY <1>2, <1>3, <1>4, <1>5, <1>6, <1>7, <1>9, <1>10, WorkerCases
    DEF BindingCycle, ReserveFails, PermitFails, BindFails, RecordFailure

\* A move request takes every pod out of unschedulableQ and is noted.
LEMMA MoveAllFacts ==
    ASSUME TypeOK, AssignedPodDeleteMoves \/ NodeMoves, NEW p \in Pods
    PROVE  unschedulableQ' = {} /\ MoveRecorded(p)'
  <1>1. MoveAllToActiveOrBackoffQueue /\ worker' = MoveNoted
    BY DEF AssignedPodDeleteMoves, NodeMoves
  <1>2. unschedulableQ' = {}
    BY <1>1 DEF MoveAllToActiveOrBackoffQueue, movePodsToActiveOrBackoffQueue
  <1>3. moved'
    BY <1>1, Zenon DEF MoveAllToActiveOrBackoffQueue, movePodsToActiveOrBackoffQueue
  <1>4. ASSUME NEW w \in Workers, worker'[w].step = "requeue"
        PROVE  worker'[w].moveSeen
    BY <1>1, <1>4, MoveNotedFacts
  <1> QED BY <1>2, <1>3, <1>4, Zenon DEF MoveRecorded

\* A pod that a change of the cluster may help does not come to rest in
\* unschedulableQ.
LEMMA OutdatedKeeps ==
    ASSUME TypeOK, QueueInv, WorkerOK, TrailOK, Told, OutdatedOK, [Next]_vars
    PROVE  OutdatedOK'
  <1> DEFINE Pending == moving \cap {"removed", "node"} # {}
             Rests(p) == p \notin unschedulableQ /\ (p \in Queued \/ MoveRecorded(p))
  <1> SUFFICES ASSUME NEW p \in outdated', api'[p] \in Unassigned
               PROVE  /\ p \in Queued' \/ OnTheWay(p)'
                      /\ Pending' \/ Rests(p)'
    BY DEF OutdatedOK, Unassigned
  <1>0. p \in Pods
    BY HandlerStepType
  <1>1. api[p] \in Unassigned
    BY <1>0, ApiForward
  <1>2. CASE p \notin outdated
    <2>1. /\ \E q \in Pods : deletePodFromCache(q) \/ NodeChanges
          /\ p \in Helped
      BY <1>0, <1>2, HandlersChange DEF HandlerStep, NextPod, addPodToCache,
        updatePodInCache, deletePodFromCache, AssignedPodMoves,
        AssignedPodDeleteMoves, NodeChanges, NodeMoves
    <2>2. UNCHANGED <<queueVars, worker>> /\ Pending'
      BY <2>1 DEF deletePodFromCache, NodeChanges
    <2>3. p \in Queued \/ OnTheWay(p)
      BY <2>1 DEF Helped, Queued, OnTheWay, HeldBy
    <2>4. p \in Queued' \/ OnTheWay(p)'
      BY <2>2, <2>3 DEF queueVars, Queued, OnTheWay, HeldBy
    <2> QED BY <2>2, <2>4
  <1>3. CASE p \in outdated
    <2>1. ~ NextPod(p)
      BY DEF NextPod
    <2>2. p \in Queued => p \in Queued'
      <3>1. ~ deletePodFromSchedulingQueue(p)
        BY <1>0, <1>1, UnassignedShows DEF deletePodFromSchedulingQueue
      <3> QED BY <2>1, <3>1, QueuedCases
    <2>3. p \in Queued' \/ OnTheWay(p)'
      BY <1>0, <1>1, <1>3, <2>2, OnTheWayKeeps DEF OutdatedOK
    <2>4. CASE Pending /\ ~ Pending'
      <3>1. AssignedPodDeleteMoves \/ NodeMoves
        BY <2>4, HandlersChange DEF HandlerStep, NextPod, addPodToCache,
          updatePodInCache, deletePodFromCache, AssignedPodMoves, NodeChanges
      <3> QED BY <1>0, <2>3, <3>1, MoveAllFacts
    <2>5. CASE ~ Pending
      <3>1. Rests(p)
        BY <1>1, <1>3, <2>5 DEF OutdatedOK
      <3>2. p \notin unschedulableQ'
        BY <1>0, <3>1, UnschedulableGrows DEF MoveRecorded, ErrorRequeues
      <3>3. CASE p \in Queued
        BY <2>2, <2>3, <3>2, <3>3
      <3>4. CASE p \notin Queued
        <4>1. OnTheWay(p) /\ MoveRecorded(p)
          BY <1>1, <1>3, <3>1, <3>4 DEF OutdatedOK
        <4>2. MoveRecorded(p)'
          BY <1>0, <1>1, <4>1, OnTheWayKeeps, MoveRecordedKeeps
        <4> QED BY <2>3, <3>2, <4>2
      <3> QED BY <3>3, <3>4
    <2> QED BY <2>3, <2>4, <2>5
  <1> QED BY <1>2, <1>3

-----------------------------------------------------------------------------

\* The scheduler starts with empty queues, caches and trails.
LEMMA InitInv == Init => Inv
  <1> SUFFICES ASSUME Init PROVE Inv
    OBVIOUS
  <1> USE DEF Init, Cache!Init
  <1>1. QueueInv /\ QueueTypeOK /\ Queued = {}
    BY QueueInitInv DEF QueueInv, QueueInit, Queued
  <1>2. TypeOK
    <2>1. worker \in [Workers -> WorkerState]
      BY IdleType
    <2>2. trail \in [Pods -> Seq(PodState)]
      BY DEF PodState
    <2> QED BY <1>1, <2>1, <2>2 DEF TypeOK, PodState, NodeName, WorkerState
  <1>3. \A w \in Workers : worker[w].step = "idle" /\ worker[w].pod = NoPod
    BY DEF Idle
  <1>4. \A h \in Handlers, p \in Pods : seen[h][p] = 0 /\ SeenBy(h, p) = "absent"
    BY DEF SeenBy, Shown
  <1>5. WorkerOK /\ BoundOK
    BY <1>3 DEF WorkerOK, BoundOK, Assuming
  <1>6. TrailOK
    <2>1. \A p \in Pods : Len(trail[p]) = 0
      OBVIOUS
    <2> HIDE DEF Init, Cache!Init
    <2>2. \A p \in Pods : \A k \in 1..Len(trail[p]) : FALSE
      BY <2>1
    <2>3. \A p \in Pods, h \in Handlers : seen[h][p] <= Len(trail[p])
      BY <1>4, <2>1
    <2> QED BY <2>2, <2>3 DEF TrailOK
  <1>7. Told
    BY <1>1, <1>3, NoPodAssumption DEF Told, HeldBy
  <1>8. CacheFollowsWatch /\ AccountedOnce /\ AssumedOK
    BY <1>4, StateAssumption DEF CacheFollowsWatch, AccountedOnce, AssumedOK, Handlers
  <1>9. NoPodLost
    BY <1>4 DEF NoPodLost, Handlers
  <1>10. OutdatedOK
    BY DEF OutdatedOK
  <1> QED BY <1>1, <1>2, <1>5, <1>6, <1>7, <1>8, <1>9, <1>10 DEF Inv

\* Every step of every goroutine keeps the invariant: one step per part.
LEMMA NextInv == Inv /\ [Next]_vars => Inv'
  <1> SUFFICES ASSUME Inv, [Next]_vars PROVE Inv'
    OBVIOUS
  <1> TypeOK /\ QueueInv /\ WorkerOK /\ TrailOK /\ Told /\ CacheFollowsWatch
      /\ AccountedOnce /\ BoundOK /\ AssumedOK /\ NoPodLost /\ OutdatedOK
    BY DEF Inv
  <1>1. TypeOK'
    BY TypeKeeps
  <1>2. QueueInv'
    BY QueueStep, QueueNextKeeps
  <1>3. WorkerOK' /\ TrailOK' /\ Told'
    BY WorkerKeeps, TrailKeeps, ToldKeeps
  <1>4. CacheFollowsWatch' /\ AccountedOnce'
    BY WatchKeeps, AccountedKeeps, CacheStep DEF TypeOK, CacheTypeOK
  <1>5. BoundOK' /\ AssumedOK'
    BY BoundKeeps, AssumedKeeps
  <1>6. NoPodLost' /\ OutdatedOK'
    BY NoPodLostKeeps, OutdatedKeeps
  <1> QED BY <1>1, <1>2, <1>3, <1>4, <1>5, <1>6 DEF Inv

\* The scheduling loop, the binding goroutines and the handlers keep the
\* invariant, for any number of pods, nodes and goroutines.
THEOREM SchedulerInvariant == Spec => []Inv
  BY InitInv, NextInv, PTL DEF Spec

\* Every variable keeps its type; in particular no handler's index runs past the
\* informer's trail into nothing, and no bind writes an empty node name.
THEOREM SchedulerTypes == Spec => []TypeOK
  <1>1. Inv => TypeOK
    BY DEF Inv
  <1> QED BY <1>1, SchedulerInvariant, PTL

\* The loop, the goroutines and the handlers use the PriorityQueue only through
\* its operations, so what is proved of the queue under any caller holds in the
\* scheduler.
THEOREM SchedulerUsesQueue == Spec => QueueSpec
  <1>1. Init => QueueInit
    BY DEF Init
  <1>2. Inv /\ [Next]_vars => [QueueNext]_queueVars
    BY QueueStep DEF Inv
  <1> QED BY <1>1, <1>2, SchedulerInvariant, PTL DEF Spec, QueueSpec

\* The scheduler drives the cache only along the state machine drawn in
\* interface.go: it never assumes a pod the cache has, never forgets or finishes
\* one that is not assumed, and never adds or removes one twice.
THEOREM SchedulerUsesCache == Spec => Cache!Spec
  <1>1. Init => Cache!Init
    BY DEF Init
  <1>2. Inv /\ [Next]_vars => [Cache!Next]_cacheVars
    BY CacheStep DEF Inv
  <1>3. UNCHANGED cacheVars => UNCHANGED Cache!vars
    BY DEF cacheVars, Cache!vars
  <1>4. Inv /\ [Next]_vars => [Cache!Next]_(Cache!vars)
    BY <1>2, <1>3
  <1> QED BY <1>1, <1>4, SchedulerInvariant, PTL DEF Spec, Cache!Spec

\* In the scheduler, too, a pod is in one sub-queue and nominated to one node.
THEOREM SchedulerOnePlace == Spec => []OnePlace
  BY SchedulerUsesQueue, QueueOnePlace, PTL

\* A pod the queue was told of and that is pending in the API server is queued or
\* held by a worker that puts it back when it fails.
THEOREM SchedulerNoPodLost == Spec => []NoPodLost
  <1>1. Inv => NoPodLost
    BY DEF Inv
  <1> QED BY <1>1, SchedulerInvariant, PTL

\* A pod found not to fit does not rest in unschedulableQ after a change that may
\* help it, whenever the change comes between the snapshot and the requeue.
THEOREM SchedulerNoLostMove == Spec => []NoLostMove
  <1>1. Inv => NoLostMove
    BY DEF Inv, OutdatedOK, NoLostMove
  <1> QED BY <1>1, SchedulerInvariant, PTL

\* What the cache holds as added follows the notifications of the cache's handler
\* alone, so that neither its AddPod nor its RemovePod ever meets a pod in a phase
\* for which the code logs an error or exits.
THEOREM SchedulerCacheFollowsWatch == Spec => [](CacheFollowsWatch /\ AccountedOnce)
  <1>1. Inv => CacheFollowsWatch /\ AccountedOnce
    BY DEF Inv
  <1> QED BY <1>1, SchedulerInvariant, PTL

\* Once the cache's handler caught up with the API server and no worker is at the
\* pod, the cache agrees with the API server about it.
THEOREM SchedulerCacheConverges == Spec => []CacheConverges
  <1>1. Inv => CacheConverges
    <2> SUFFICES ASSUME Inv, NEW p \in Pods, SeenBy("cache", p) = api[p],
                        \A w \in Workers : ~ HeldBy(w, p)
                 PROVE  /\ api[p] \in Nodes => /\ phase[p] = "Added"
                                               /\ p \in aggregated[api[p]]
                        /\ api[p] \notin Nodes => \/ phase[p] = "Absent"
                                                  \/ p \in expirable /\ api[p] = "gone"
      BY DEF CacheConverges
    <2>1. /\ phase[p] \in {"Absent", "Assumed", "Added"} /\ api[p] \in PodState
          /\ CacheFollowsWatch /\ AssumedOK
      BY DEF Inv, TypeOK
    <2> QED BY <2>1 DEF CacheFollowsWatch, AssumedOK, PodState, Unassigned
  <1> QED BY <1>1, SchedulerInvariant, PTL
=============================================================================
