-------------------------- MODULE SchedulingQueue --------------------------
(***************************************************************************)
(* PriorityQueue of internal/queue/scheduling_queue.go: the pods that wait *)
(* to be scheduled, in three sub-queues, and the nominator.  Every         *)
(* operation holds the queue's lock and is one action; the nominator has a *)
(* lock of its own, taken inside the queue's or alone.                     *)
(*                                                                         *)
(* Time is abstracted to what the queue compares.  GetPodPriority is the   *)
(* same for every pod, so activeQ is ordered by Timestamp alone, and the   *)
(* relation older is all that is kept of the timestamps.  A QueuedPodInfo  *)
(* that waits is backing off or not.  schedulingCycle and moveRequestCycle *)
(* are only ever compared, and moveRequestCycle is never the greater:      *)
(* moved says that they are equal, that is, that a move request came since *)
(* the last Pop.                                                           *)
(***************************************************************************)
EXTENDS Integers

CONSTANTS
    Pods,       \* pods, by namespace and name
    Nodes,      \* node names
    NoNode      \* the empty node name

VARIABLES
    activeQ,            \* pods the scheduler looks at
    podBackoffQ,        \* pods to be moved to activeQ when their backoff ends
    unschedulableQ,     \* pods tried and found unschedulable
    backingOff,         \* of the last two, the pods whose backoff time is ahead
    older,              \* pairs of pods: the Timestamp of the first is older
    moved,              \* moveRequestCycle >= schedulingCycle
    asleep,             \* Pop waits on the condition variable
    nominator           \* nominatedPods and nominatedPodToNode

queueVars == <<activeQ, podBackoffQ, unschedulableQ, backingOff, older, moved,
               asleep, nominator>>

ASSUME NoNodeAssumption == NoNode \notin Nodes

\* The pod is in one of the sub-queues.
Queued == activeQ \cup podBackoffQ \cup unschedulableQ

Nominator ==
    [nominatedPods : [Nodes -> SUBSET Pods],
     nominatedPodToNode : [Pods -> Nodes \cup {NoNode}]]

QueueTypeOK ==
    /\ activeQ \subseteq Pods
    /\ podBackoffQ \subseteq Pods
    /\ unschedulableQ \subseteq Pods
    /\ backingOff \subseteq Pods
    /\ older \subseteq Pods \X Pods
    /\ moved \in BOOLEAN
    /\ asleep \in BOOLEAN
    /\ nominator \in Nominator

QueueInit ==
    /\ activeQ = {}
    /\ podBackoffQ = {}
    /\ unschedulableQ = {}
    /\ backingOff = {}
    /\ older = {}
    /\ moved = FALSE
    /\ asleep = FALSE
    /\ nominator = [nominatedPods |-> [n \in Nodes |-> {}],
                    nominatedPodToNode |-> [p \in Pods |-> NoNode]]

\* The pod's Timestamp becomes the current time: every other one is older.
Stamped(p) ==
    {e \in older : e[1] # p /\ e[2] # p} \cup ((Pods \ {p}) \X {p})

-----------------------------------------------------------------------------
(* The nominator.  nnn is the NominatedNodeName of the pod's status.       *)

nominatorDelete(nom, p) ==
    IF nom.nominatedPodToNode[p] = NoNode THEN nom
    ELSE [nominatedPods |->
             [nom.nominatedPods EXCEPT ![nom.nominatedPodToNode[p]] = @ \ {p}],
          nominatedPodToNode |-> [nom.nominatedPodToNode EXCEPT ![p] = NoNode]]

nominatorAdd(nom, p, nodeName, nnn) ==
    LET n == IF nodeName # NoNode THEN nodeName ELSE nnn
        d == nominatorDelete(nom, p)
    IN  IF n = NoNode THEN d
        ELSE [nominatedPods |-> [d.nominatedPods EXCEPT ![n] = @ \cup {p}],
              nominatedPodToNode |-> [d.nominatedPodToNode EXCEPT ![p] = n]]

\* A nomination that neither version of the pod knows of is kept.
nominatorUpdate(nom, p, oldNnn, nnn) ==
    nominatorAdd(nominatorDelete(nom, p), p,
                 IF oldNnn = NoNode /\ nnn = NoNode
                 THEN nom.nominatedPodToNode[p] ELSE NoNode,
                 nnn)

AddNominatedPod(p, nodeName, nnn) ==
    /\ nominator' = nominatorAdd(nominator, p, nodeName, nnn)
    /\ UNCHANGED <<activeQ, podBackoffQ, unschedulableQ, backingOff, older, moved,
                   asleep>>

DeleteNominatedPodIfExists(p) ==
    /\ nominator' = nominatorDelete(nominator, p)
    /\ UNCHANGED <<activeQ, podBackoffQ, unschedulableQ, backingOff, older, moved,
                   asleep>>

-----------------------------------------------------------------------------
(* The operations of the informer's handlers.                              *)

Add(p, nnn) ==
    /\ activeQ' = activeQ \cup {p}
    /\ podBackoffQ' = podBackoffQ \ {p}
    /\ unschedulableQ' = unschedulableQ \ {p}
    /\ backingOff' = backingOff \ {p}
    /\ older' = Stamped(p)
    /\ asleep' = FALSE
    /\ nominator' = nominatorAdd(nominator, p, NoNode, nnn)
    /\ UNCHANGED moved

\* Mutant: a pod that leaves podBackoffQ is not taken out of it.
UpdateKeepsBackoff(p, oldNnn, nnn, updated) ==
    \/ /\ p \in activeQ \cup podBackoffQ \/ (p \in unschedulableQ /\ updated)
       /\ activeQ' = activeQ \cup {p}
       /\ unschedulableQ' = unschedulableQ \ {p}
       /\ backingOff' = backingOff \ {p}
       /\ asleep' = (asleep /\ p \in activeQ)
       /\ nominator' = nominatorUpdate(nominator, p, oldNnn, nnn)
       /\ UNCHANGED <<podBackoffQ, older, moved>>
    \/ /\ p \notin activeQ \cup podBackoffQ \cup unschedulableQ
       /\ Add(p, nnn)

\* Mutant: no Broadcast for a pod that leaves unschedulableQ.
UpdateSilently(p, oldNnn, nnn, updated) ==
    \/ /\ p \in activeQ \cup podBackoffQ \/ (p \in unschedulableQ /\ updated)
       /\ activeQ' = activeQ \cup {p}
       /\ podBackoffQ' = podBackoffQ \ {p}
       /\ unschedulableQ' = unschedulableQ \ {p}
       /\ backingOff' = backingOff \ {p}
       /\ nominator' = nominatorUpdate(nominator, p, oldNnn, nnn)
       /\ UNCHANGED <<older, moved, asleep>>
    \/ /\ p \notin Queued
       /\ Add(p, nnn)

\* updated is isPodUpdated: more than the status changed.  A pod in activeQ stays
\* there, one in podBackoffQ goes to activeQ whether its backoff ended or not, one
\* in unschedulableQ goes to activeQ if it was updated; the three keep their
\* Timestamp.  Any other pod is new.
Update(p, oldNnn, nnn, updated) ==
    \/ /\ p \in activeQ \cup podBackoffQ \/ (p \in unschedulableQ /\ updated)
       /\ activeQ' = activeQ \cup {p}
       /\ podBackoffQ' = podBackoffQ \ {p}
       /\ unschedulableQ' = unschedulableQ \ {p}
       /\ backingOff' = backingOff \ {p}
       /\ asleep' = (asleep /\ p \in activeQ)
       /\ nominator' = nominatorUpdate(nominator, p, oldNnn, nnn)
       /\ UNCHANGED <<older, moved>>
    \/ /\ p \in unschedulableQ \ (activeQ \cup podBackoffQ) /\ ~ updated
       /\ nominator' = nominatorUpdate(nominator, p, oldNnn, nnn)
       /\ UNCHANGED <<activeQ, podBackoffQ, unschedulableQ, backingOff, older,
                      moved, asleep>>
    \/ /\ p \notin Queued
       /\ Add(p, nnn)

\* The other sub-queues are looked at only when activeQ does not have the pod.
Delete(p) ==
    /\ nominator' = nominatorDelete(nominator, p)
    /\ activeQ' = activeQ \ {p}
    /\ IF p \in activeQ
       THEN UNCHANGED <<podBackoffQ, unschedulableQ, backingOff>>
       ELSE /\ podBackoffQ' = podBackoffQ \ {p}
            /\ unschedulableQ' = unschedulableQ \ {p}
            /\ backingOff' = backingOff \ {p}
    /\ UNCHANGED <<older, moved, asleep>>

\* movePodsToActiveOrBackoffQueue records the request and wakes Pop also when it
\* is given no pods.
movePodsToActiveOrBackoffQueue(S) ==
    /\ activeQ' = activeQ \cup (S \ backingOff)
    /\ podBackoffQ' = podBackoffQ \cup (S \cap backingOff)
    /\ unschedulableQ' = unschedulableQ \ S
    /\ moved' = TRUE
    /\ asleep' = FALSE
    /\ UNCHANGED <<backingOff, older, nominator>>

MoveAllToActiveOrBackoffQueue == movePodsToActiveOrBackoffQueue(unschedulableQ)

\* AssignedPodAdded and AssignedPodUpdated move the pods with an affinity term
\* that matches the assigned pod: any, as far as the queue is concerned.
AssignedPodAddedOrUpdated ==
    \E S \in SUBSET unschedulableQ : movePodsToActiveOrBackoffQueue(S)

-----------------------------------------------------------------------------
(* The operations of the scheduling loop and its binding goroutines.       *)

\* Pop finds activeQ empty and waits for a Broadcast.
Wait ==
    /\ ~ asleep
    /\ activeQ = {}
    /\ asleep' = TRUE
    /\ UNCHANGED <<activeQ, podBackoffQ, unschedulableQ, backingOff, older, moved,
                   nominator>>

\* Pop takes the pod with the oldest Timestamp and starts a scheduling cycle.
Pop(p) ==
    /\ ~ asleep
    /\ p \in activeQ
    /\ \A q \in activeQ : <<q, p>> \notin older
    /\ activeQ' = activeQ \ {p}
    /\ moved' = FALSE
    /\ UNCHANGED <<podBackoffQ, unschedulableQ, backingOff, older, asleep, nominator>>

\* Mutant: a move request during the attempt is ignored.
AddUnschedulableAlways(p, moveSeen, nnn) ==
    IF p \in Queued THEN UNCHANGED queueVars
    ELSE /\ unschedulableQ' = unschedulableQ \cup {p}
         /\ backingOff' = backingOff \cup {p}
         /\ older' = Stamped(p)
         /\ nominator' = nominatorAdd(nominator, p, NoNode, nnn)
         /\ UNCHANGED <<activeQ, podBackoffQ, moved, asleep>>

\* moveSeen is moveRequestCycle >= podSchedulingCycle.
AddUnschedulableIfNotPresent(p, moveSeen, nnn) ==
    IF p \in Queued THEN UNCHANGED queueVars
    ELSE /\ IF moveSeen
            THEN podBackoffQ' = podBackoffQ \cup {p} /\ UNCHANGED unschedulableQ
            ELSE unschedulableQ' = unschedulableQ \cup {p} /\ UNCHANGED podBackoffQ
         /\ backingOff' = backingOff \cup {p}
         /\ older' = Stamped(p)
         /\ nominator' = nominatorAdd(nominator, p, NoNode, nnn)
         /\ UNCHANGED <<activeQ, moved, asleep>>

-----------------------------------------------------------------------------
(* Time and the queue's own goroutines.                                    *)

\* getBackoffTime passes.
BackoffEnds(p) ==
    /\ p \in backingOff
    /\ backingOff' = backingOff \ {p}
    /\ UNCHANGED <<activeQ, podBackoffQ, unschedulableQ, older, moved, asleep,
                   nominator>>

\* Mutant: the pods are popped and not added.
flushBackoffQCompletedDrops ==
    /\ podBackoffQ \ backingOff # {}
    /\ podBackoffQ' = podBackoffQ \cap backingOff
    /\ UNCHANGED <<activeQ, asleep, unschedulableQ, backingOff, older, moved, nominator>>

\* podBackoffQ is ordered by the end of backoff: its head is not completed only
\* when no pod is.
flushBackoffQCompleted ==
    /\ podBackoffQ \ backingOff # {}
    /\ activeQ' = activeQ \cup (podBackoffQ \ backingOff)
    /\ podBackoffQ' = podBackoffQ \cap backingOff
    /\ asleep' = FALSE
    /\ UNCHANGED <<unschedulableQ, backingOff, older, moved, nominator>>

\* The pods that waited longer than unschedulableQTimeInterval: S.
flushUnschedulableQLeftover(S) ==
    /\ S # {} /\ S \subseteq unschedulableQ
    /\ movePodsToActiveOrBackoffQueue(S)

-----------------------------------------------------------------------------
(* The queue under any caller.                                             *)

NodeName == Nodes \cup {NoNode}

QueueNext ==
    \/ \E p \in Pods, nodeName, nnn \in NodeName : AddNominatedPod(p, nodeName, nnn)
    \/ \E p \in Pods : DeleteNominatedPodIfExists(p)
    \/ \E p \in Pods, nnn \in NodeName : Add(p, nnn)
    \/ \E p \in Pods, oldNnn, nnn \in NodeName, updated \in BOOLEAN :
          Update(p, oldNnn, nnn, updated)
    \/ \E p \in Pods : Delete(p)
    \/ MoveAllToActiveOrBackoffQueue
    \/ AssignedPodAddedOrUpdated
    \/ Wait
    \/ \E p \in Pods : Pop(p)
    \/ \E p \in Pods, moveSeen \in BOOLEAN, nnn \in NodeName :
          AddUnschedulableIfNotPresent(p, moveSeen, nnn)
    \/ \E p \in Pods : BackoffEnds(p)
    \/ flushBackoffQCompleted
    \/ \E S \in SUBSET unschedulableQ : flushUnschedulableQLeftover(S)

QueueSpec == QueueInit /\ [][QueueNext]_queueVars

\* A pod is in at most one sub-queue, whatever the order of handlers, flushes,
\* scheduling failures and deletions: Delete, which stops at activeQ, relies on
\* it ("assumes the pod is only in one queue").
OneQueue ==
    /\ activeQ \cap podBackoffQ = {}
    /\ activeQ \cap unschedulableQ = {}
    /\ podBackoffQ \cap unschedulableQ = {}

\* No Broadcast is missing: Pop never sleeps while activeQ has a pod.
NoMissedWakeup == asleep => activeQ = {}

\* The two maps of the nominator agree: a pod is listed for the node it is
\* nominated to and for no other, so a nominated pod's requests are added to at
\* most one node when the filters run.
NominatorConsistent ==
    \A p \in Pods, n \in Nodes :
        p \in nominator.nominatedPods[n] <=> nominator.nominatedPodToNode[p] = n

\* Each pod has one place in the sub-queues and one in the nominator.
OnePlace == OneQueue /\ NominatorConsistent
=============================================================================
