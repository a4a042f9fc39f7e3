----------------------------- MODULE Scheduler -----------------------------
(***************************************************************************)
(* The scheduler of scheduler.go, eventhandlers.go and factory.go: the     *)
(* scheduling loop (scheduleOne), its binding goroutines, the handlers of  *)
(* the informers, and between them the scheduling queue (SchedulingQueue)  *)
(* and the cache, taken at its interface (CacheInterface).                 *)
(*                                                                         *)
(* The pod informer stores a pod before it notifies, and it notifies the   *)
(* handlers of unassigned pods (the queue's) and of assigned pods (the     *)
(* cache's) through two goroutines: lister, queue and cache see the        *)
(* history of a pod in the same order but not at the same time.            *)
(***************************************************************************)
EXTENDS SchedulingQueue, Sequences

CONSTANTS
    Slots,          \* bound: the binding goroutines there can be at once
    NoPod,          \* a worker without a pod
    Preemption,     \* PostFilter plugins are registered and nominate nodes
    Events          \* bound: the kinds of events from outside there are

VARIABLES
    phase, aggregated, expirable,   \* the cache: see CacheInterface
    api,            \* api[p]: the pod in the API server
    trail,          \* trail[p]: what the informer stored of the pod, in order
    seen,           \* seen[h][p]: how much of trail[p] reached the handler h
    status,         \* status[p]: the NominatedNodeName patched into the status
    worker,         \* the scheduling loop and the binding goroutines
    moving,         \* handlers that changed the cache and have still to call
                    \*   the queue
    outdated        \* history: pods whose latest verdict is older than a
                    \*   change of the cluster that may help them

cacheVars == <<phase, aggregated, expirable>>
podVars == <<api, trail, seen, status>>
vars == <<queueVars, cacheVars, podVars, worker, moving, outdated>>

Cache == INSTANCE CacheInterface

ASSUME NoPodAssumption == NoPod \notin Pods
ASSUME SlotsAssumption == "loop" \notin Slots
ASSUME PreemptionAssumption == Preemption \in BOOLEAN
ASSUME EventsAssumption ==
    Events \subseteq {"podUpdated", "podDeleted", "boundElsewhere", "nodeChanged"}
ASSUME StateAssumption ==
    Nodes \cap {"absent", "pending", "deleting", "gone"} = {}

-----------------------------------------------------------------------------

\* An object's life: a node name is a pod bound to that node.
PodState == {"pending", "deleting", "gone"} \cup Nodes

Handlers == {"queue", "cache"}

Workers == {"loop"} \cup Slots

\* Where a worker is in scheduleOne or in the function it starts for binding.
Step == {"idle",        \* at NextPod, or not started
         "popped",      \* before Schedule
         "reserved",    \* assumed: Reserve and Permit plugins
         "binding",     \* WaitOnPermit, PreBind and the bind call
         "bound",       \* the bind call succeeded, FinishBinding is next
         "refused",     \* the bind call failed, FinishBinding is next
         "unreserve",   \* after FinishBinding of a failed bind
         "failed",      \* recordSchedulingFailure, before the lister
         "requeue",     \* the lister has the pod
         "nominate"}    \* Error returned

Idle == [step |-> "idle", pod |-> NoPod, node |-> NoNode, moveSeen |-> FALSE]

TypeOK ==
    /\ QueueTypeOK
    /\ phase \in [Pods -> {"Absent", "Assumed", "Added"}]
    /\ aggregated \in [Nodes -> SUBSET Pods]
    /\ expirable \subseteq Pods
    /\ api \in [Pods -> PodState]
    /\ trail \in [Pods -> Seq(PodState)]
    /\ seen \in [Handlers -> [Pods -> Nat]]
    /\ status \in [Pods -> NodeName]
    /\ worker \in [Workers -> [step : Step, pod : Pods \cup {NoPod},
                               node : NodeName, moveSeen : BOOLEAN]]
    /\ moving \subseteq {"added", "removed", "node"}
    /\ outdated \subseteq Pods

Init ==
    /\ QueueInit
    /\ Cache!Init
    /\ api = [p \in Pods |-> "pending"]
    /\ trail = [p \in Pods |-> <<>>]
    /\ seen = [h \in Handlers |-> [p \in Pods |-> 0]]
    /\ status = [p \in Pods |-> NoNode]
    /\ worker = [w \in Workers |-> Idle]
    /\ moving = {}
    /\ outdated = {}

\* The first k entries of trail[p], as a handler has seen them: the last one.
Shown(p, k) == IF k = 0 THEN "absent" ELSE trail[p][k]

lister(p) == Shown(p, Len(trail[p]))
SeenBy(h, p) == Shown(p, seen[h][p])

\* The NominatedNodeName of a copy of the pod: the patch may not be in it yet.
Copies(p) == {NoNode, status[p]}

To(w, step) == worker' = [worker EXCEPT ![w].step = step]
Drop(w) == worker' = [worker EXCEPT ![w] = Idle]

\* The workers for which a move request comes between reading SchedulingCycle and
\* AddUnschedulableIfNotPresent.
MoveNoted ==
    [w \in Workers |-> IF worker[w].step = "requeue"
                       THEN [worker[w] EXCEPT !.moveSeen = TRUE] ELSE worker[w]]

-----------------------------------------------------------------------------
(* scheduleOne.                                                            *)

NextPodWaits ==
    /\ worker["loop"].step = "idle"
    /\ Wait
    /\ UNCHANGED <<cacheVars, podVars, worker, moving, outdated>>

NextPod(p) ==
    /\ worker["loop"].step = "idle"
    /\ Pop(p)
    /\ worker' = [worker EXCEPT !["loop"] =
                    [step |-> "popped", pod |-> p, node |-> NoNode,
                     moveSeen |-> FALSE]]
    /\ outdated' = outdated \ {p}
    /\ UNCHANGED <<cacheVars, podVars, moving>>

\* The pod is assumed, and as far as the model goes its copy may differ from the
\* assumed one in the fields that are ignored only.
skipPodUpdate(p) == phase[p] = "Assumed"

\* skipPodSchedule: the pod is being deleted, or it is assumed and did not change.
\* The popped copy may come from the queue's handler or from the lister, and it
\* may be older than either: the pod may also be tried.
skipPodSchedule(p) ==
    /\ worker["loop"].step = "popped" /\ worker["loop"].pod = p
    /\ skipPodUpdate(p) \/ "deleting" \in {SeenBy("queue", p), lister(p)}
    /\ Drop("loop")
    /\ UNCHANGED <<queueVars, cacheVars, podVars, moving, outdated>>

\* Schedule returns an error, and preemption may nominate a node.
ScheduleFails(p, nominated) ==
    /\ worker["loop"].step = "popped" /\ worker["loop"].pod = p
    /\ nominated # NoNode => Preemption
    /\ worker' = [worker EXCEPT !["loop"].step = "failed",
                                !["loop"].node = nominated]
    /\ UNCHANGED <<queueVars, cacheVars, podVars, moving, outdated>>

assume(p, n) ==
    /\ worker["loop"].step = "popped" /\ worker["loop"].pod = p
    /\ Cache!Assume(p, n)
    /\ DeleteNominatedPodIfExists(p)
    /\ worker' = [worker EXCEPT !["loop"].step = "reserved", !["loop"].node = n]
    /\ UNCHANGED <<podVars, moving, outdated>>

\* AssumePod refuses a pod the cache knows.
assumeFails(p) ==
    /\ worker["loop"].step = "popped" /\ worker["loop"].pod = p
    /\ phase[p] # "Absent"
    /\ To("loop", "failed")
    /\ UNCHANGED <<queueVars, cacheVars, podVars, moving, outdated>>

\* Mutant: the cache is not told.
ForgetPodLeaks(p, n) == UNCHANGED cacheVars

\* ForgetPod changes nothing for a pod that is not assumed, or not on that node.
ForgetPod(p, n) ==
    IF phase[p] = "Assumed" /\ p \in aggregated[n]
    THEN Cache!Forget(p)
    ELSE UNCHANGED cacheVars

\* Mutant: the failure is not recorded.
GiveUpSilently(w) ==
    /\ ForgetPod(worker[w].pod, worker[w].node)
    /\ Drop(w)
    /\ UNCHANGED <<queueVars, podVars, moving, outdated>>

\* A worker that assumed p on a node gives up: it forgets the pod and goes on to
\* recordSchedulingFailure without a nominated node.
GiveUp(w) ==
    /\ ForgetPod(worker[w].pod, worker[w].node)
    /\ worker' = [worker EXCEPT ![w].step = "failed", ![w].node = NoNode]
    /\ UNCHANGED <<queueVars, podVars, moving, outdated>>

\* A Reserve or Permit plugin fails.
ReserveFails == worker["loop"].step = "reserved" /\ GiveUp("loop")

StartBinding(s) ==
    /\ worker["loop"].step = "reserved"
    /\ worker[s].step = "idle"
    /\ worker' = [worker EXCEPT ![s] = [worker["loop"] EXCEPT !.step = "binding"],
                                !["loop"] = Idle]
    /\ UNCHANGED <<queueVars, cacheVars, podVars, moving, outdated>>

-----------------------------------------------------------------------------
(* The binding goroutines.                                                 *)

\* WaitOnPermit or a PreBind plugin fails.
PermitFails(s) == worker[s].step = "binding" /\ GiveUp(s)

\* Mutant: the Binding has no target.
bindNowhere(s) ==
    /\ worker[s].step = "binding"
    /\ api[worker[s].pod] = "pending"
    /\ api' = [api EXCEPT ![worker[s].pod] = NoNode]
    /\ To(s, "bound")
    /\ UNCHANGED <<queueVars, cacheVars, trail, seen, status, moving, outdated>>

\* The API server binds the pod, or refuses, or binds it and the answer is lost.
bind(s) ==
    /\ worker[s].step = "binding"
    /\ \/ /\ api[worker[s].pod] = "pending"
          /\ api' = [api EXCEPT ![worker[s].pod] = worker[s].node]
          /\ To(s, "bound") \/ To(s, "refused")
       \/ /\ To(s, "refused")
          /\ UNCHANGED api
    /\ UNCHANGED <<queueVars, cacheVars, trail, seen, status, moving, outdated>>

\* Mutant: FinishBinding is left out.
finishBindingNot(s) ==
    /\ worker[s].step \in {"bound", "refused"}
    /\ IF worker[s].step = "bound" THEN Drop(s) ELSE To(s, "unreserve")
    /\ UNCHANGED <<queueVars, cacheVars, podVars, moving, outdated>>

\* The deferred call: only a pod that is still assumed becomes expirable.
finishBinding(s) ==
    /\ worker[s].step \in {"bound", "refused"}
    /\ IF phase[worker[s].pod] = "Assumed"
       THEN Cache!FinishBinding(worker[s].pod)
       ELSE UNCHANGED cacheVars
    /\ IF worker[s].step = "bound" THEN Drop(s) ELSE To(s, "unreserve")
    /\ UNCHANGED <<queueVars, podVars, moving, outdated>>

BindFails(s) == worker[s].step = "unreserve" /\ GiveUp(s)

-----------------------------------------------------------------------------
(* recordSchedulingFailure, of the loop or of a binding goroutine.  Error  *)
(* looks the pod up in the lister and reads SchedulingCycle before it      *)
(* takes the queue's lock.  That it removes a node from the cache when the *)
(* error is the API's NotFound is left out: Status.AsError and fmt.Errorf  *)
(* keep only the text of every error that gets here.                       *)

\* Mutant: a pod that is not in the lister is added back too.
ErrorReadsListerNot(w) ==
    /\ worker[w].step = "failed"
    /\ worker' = [worker EXCEPT ![w].step = "requeue", ![w].moveSeen = moved]
    /\ UNCHANGED <<queueVars, cacheVars, podVars, moving, outdated>>

ErrorReadsLister(w) ==
    /\ worker[w].step = "failed"
    /\ IF lister(worker[w].pod) \in {"absent", "gone"}
       THEN To(w, "nominate")
       ELSE worker' = [worker EXCEPT ![w].step = "requeue", ![w].moveSeen = moved]
    /\ UNCHANGED <<queueVars, cacheVars, podVars, moving, outdated>>

ErrorRequeues(w) ==
    /\ worker[w].step = "requeue"
    /\ \E nnn \in Copies(worker[w].pod) :
          AddUnschedulableIfNotPresent(worker[w].pod, worker[w].moveSeen, nnn)
    /\ To(w, "nominate")
    /\ UNCHANGED <<cacheVars, podVars, moving, outdated>>

\* The nomination, and the patch of the pod's status, which may fail.
RecordNomination(w) ==
    /\ worker[w].step = "nominate"
    /\ \E nnn \in Copies(worker[w].pod) :
          AddNominatedPod(worker[w].pod, worker[w].node, nnn)
    /\ \/ /\ worker[w].node # NoNode
          /\ status' = [status EXCEPT ![worker[w].pod] = worker[w].node]
       \/ UNCHANGED status
    /\ Drop(w)
    /\ UNCHANGED <<cacheVars, api, trail, seen, moving, outdated>>

-----------------------------------------------------------------------------
(* The API server and the informers (external).                            *)

\* A user deletes the pod, at once or after its finalizers, or another scheduler
\* binds it.
ApiChanges(p) ==
    /\ \/ /\ "podDeleted" \in Events /\ api[p] = "pending"
          /\ api' = [api EXCEPT ![p] = "deleting"]
       \/ /\ "podDeleted" \in Events /\ api[p] # "gone"
          /\ api' = [api EXCEPT ![p] = "gone"]
       \/ /\ "boundElsewhere" \in Events /\ api[p] = "pending"
          /\ \E n \in Nodes : api' = [api EXCEPT ![p] = n]
    /\ UNCHANGED <<queueVars, cacheVars, trail, seen, status, worker, moving, outdated>>

\* The informer stores the pod as it is now; what came in between may be lost.  A
\* pod that is gone before the informer knew of it never shows.
InformerStores(p) ==
    /\ lister(p) # api[p]
    /\ trail[p] = <<>> => api[p] # "gone"
    /\ trail' = [trail EXCEPT ![p] = Append(@, api[p])]
    /\ UNCHANGED <<queueVars, cacheVars, api, seen, status, worker, moving, outdated>>

-----------------------------------------------------------------------------
(* The handlers.                                                           *)

\* The handler h is shown the next entry of the trail: before, then after.
Notified(h, p) ==
    /\ seen[h][p] < Len(trail[p])
    /\ seen' = [seen EXCEPT ![h][p] = @ + 1]
    /\ UNCHANGED <<api, trail, status>>

Before(h, p) == SeenBy(h, p)
After(h, p) == Shown(p, seen[h][p] + 1)

Unassigned == {"pending", "deleting"}

addPodToSchedulingQueue(p) ==
    /\ Notified("queue", p)
    /\ Before("queue", p) = "absent" /\ After("queue", p) \in Unassigned
    /\ \E nnn \in Copies(p) : Add(p, nnn)
    /\ UNCHANGED <<cacheVars, worker, moving, outdated>>

\* updated is isPodUpdated.  The pod's deletion starts, which is never skipped, or
\* its labels, annotations, status or the like change.
updatePodInSchedulingQueue(p, updated) ==
    /\ Before("queue", p) \in Unassigned
    /\ \/ /\ Notified("queue", p)
          /\ After("queue", p) \in Unassigned /\ updated
          /\ \E oldNnn, nnn \in Copies(p) : Update(p, oldNnn, nnn, updated)
       \/ /\ "podUpdated" \in Events
          /\ UNCHANGED podVars
          /\ \/ skipPodUpdate(p) /\ UNCHANGED queueVars
             \/ \E oldNnn, nnn \in Copies(p) : Update(p, oldNnn, nnn, updated)
    /\ UNCHANGED <<cacheVars, worker, moving, outdated>>

\* The pod was deleted or bound.  RejectWaitingPod makes its goroutine's
\* WaitOnPermit fail, which it may do anyway.
deletePodFromSchedulingQueue(p) ==
    /\ Notified("queue", p)
    /\ Before("queue", p) \in Unassigned /\ After("queue", p) \notin Unassigned
    /\ Delete(p)
    /\ UNCHANGED <<cacheVars, worker, moving, outdated>>

\* What the other handler's filter drops.
QueueFilters(p) ==
    /\ Notified("queue", p)
    /\ Before("queue", p) \notin Unassigned /\ After("queue", p) \notin Unassigned
    /\ UNCHANGED <<queueVars, cacheVars, worker, moving, outdated>>

CacheFilters(p) ==
    /\ Notified("cache", p)
    /\ Before("cache", p) \notin Nodes /\ After("cache", p) \notin Nodes
    /\ UNCHANGED <<queueVars, cacheVars, worker, moving, outdated>>

\* The handlers of assigned pods change the cache and then call the queue.
addPodToCache(p) ==
    /\ moving \cap {"added", "removed"} = {}
    /\ Notified("cache", p)
    /\ Before("cache", p) \notin Nodes /\ After("cache", p) \in Nodes
    /\ Cache!Add(p, After("cache", p))
    /\ moving' = moving \cup {"added"}
    /\ UNCHANGED <<queueVars, worker, outdated>>

\* UpdatePod takes the pod out of the node and puts it back.
updatePodInCache(p) ==
    /\ moving \cap {"added", "removed"} = {}
    /\ "podUpdated" \in Events /\ Before("cache", p) \in Nodes
    /\ moving' = moving \cup {"added"}
    /\ UNCHANGED <<queueVars, cacheVars, podVars, worker, outdated>>

\* The pods an event that frees resources may help: those that were found not to
\* fit, whether they are back in the queue or still on the way there.
Helped ==
    unschedulableQ \cup
        {p \in Pods : /\ worker["loop"].pod = p
                      /\ worker["loop"].step \in {"failed", "requeue"}}

deletePodFromCache(p) ==
    /\ moving \cap {"added", "removed"} = {}
    /\ Notified("cache", p)
    /\ Before("cache", p) \in Nodes /\ After("cache", p) \notin Nodes
    /\ Cache!Remove(p)
    /\ moving' = moving \cup {"removed"}
    /\ outdated' = outdated \cup Helped
    /\ UNCHANGED <<queueVars, worker>>

AssignedPodMoves ==
    /\ "added" \in moving
    /\ AssignedPodAddedOrUpdated
    /\ worker' = MoveNoted
    /\ moving' = moving \ {"added"}
    /\ UNCHANGED <<cacheVars, podVars, outdated>>

AssignedPodDeleteMoves ==
    /\ "removed" \in moving
    /\ MoveAllToActiveOrBackoffQueue
    /\ worker' = MoveNoted
    /\ moving' = moving \ {"removed"}
    /\ UNCHANGED <<cacheVars, podVars, outdated>>

\* addNodeToCache, or updateNodeInCache for a change that may make a pod fit.
NodeChanges ==
    /\ "nodeChanged" \in Events /\ "node" \notin moving
    /\ moving' = moving \cup {"node"}
    /\ outdated' = outdated \cup Helped
    /\ UNCHANGED <<queueVars, cacheVars, podVars, worker>>

NodeMoves ==
    /\ "node" \in moving
    /\ MoveAllToActiveOrBackoffQueue
    /\ worker' = MoveNoted
    /\ moving' = moving \ {"node"}
    /\ UNCHANGED <<cacheVars, podVars, outdated>>

-----------------------------------------------------------------------------
(* Time.                                                                   *)

\* cleanupAssumedPods, once the deadline passed.
ExpirePod(p) ==
    /\ Cache!Expire(p)
    /\ UNCHANGED <<queueVars, podVars, worker, moving, outdated>>

Flush ==
    /\ \/ \E p \in Pods : BackoffEnds(p)
       \/ flushBackoffQCompleted
    /\ UNCHANGED <<cacheVars, podVars, worker, moving, outdated>>

FlushLeftover(S) ==
    /\ flushUnschedulableQLeftover(S)
    /\ worker' = MoveNoted
    /\ UNCHANGED <<cacheVars, podVars, moving, outdated>>

-----------------------------------------------------------------------------

SchedulingCycle ==
    \/ NextPodWaits
    \/ \E p \in Pods :
          \/ NextPod(p)
          \/ skipPodSchedule(p)
          \/ \E nominated \in NodeName : ScheduleFails(p, nominated)
          \/ \E n \in Nodes : assume(p, n)
          \/ assumeFails(p)
    \/ ReserveFails
    \/ \E s \in Slots : StartBinding(s)

BindingCycle(s) ==
    \/ PermitFails(s)
    \/ bind(s)
    \/ finishBinding(s)
    \/ BindFails(s)

RecordFailure(w) ==
    \/ ErrorReadsLister(w)
    \/ ErrorRequeues(w)
    \/ RecordNomination(w)

QueueHandler(p) ==
    \/ addPodToSchedulingQueue(p)
    \/ \E updated \in BOOLEAN : updatePodInSchedulingQueue(p, updated)
    \/ deletePodFromSchedulingQueue(p)
    \/ QueueFilters(p)

CacheHandler(p) ==
    \/ addPodToCache(p)
    \/ updatePodInCache(p)
    \/ deletePodFromCache(p)
    \/ CacheFilters(p)

Next ==
    \/ SchedulingCycle
    \/ \E s \in Slots : BindingCycle(s)
    \/ \E w \in Workers : RecordFailure(w)
    \/ \E p \in Pods :
          \/ ApiChanges(p)
          \/ InformerStores(p)
          \/ QueueHandler(p)
          \/ CacheHandler(p)
          \/ ExpirePod(p)
    \/ AssignedPodMoves
    \/ AssignedPodDeleteMoves
    \/ NodeChanges
    \/ NodeMoves
    \/ Flush
    \/ \E S \in SUBSET unschedulableQ : FlushLeftover(S)

Spec == Init /\ [][Next]_vars

\* Every goroutine runs on: the loop, the binding goroutines (permit waits time
\* out and the bind call returns), the informer's, the handlers', the ones that
\* flush the queue's sub-queues every second and every 30 seconds, the
\* cache's sweep, and time.
\* Whether a pod fits, whether a bind succeeds and what users do is left open.
Fairness ==
    /\ WF_vars(SchedulingCycle)
    /\ \A s \in Slots : WF_vars(BindingCycle(s))
    /\ \A w \in Workers : WF_vars(RecordFailure(w))
    /\ \A p \in Pods :
          /\ WF_vars(InformerStores(p))
          /\ WF_vars(QueueHandler(p) /\ seen' # seen)
          /\ WF_vars(CacheHandler(p) /\ seen' # seen)
          /\ WF_vars(ExpirePod(p))
          /\ WF_vars(BackoffEnds(p) /\ Flush)
          /\ WF_vars(\E S \in SUBSET unschedulableQ : p \in S /\ FlushLeftover(S))
    /\ WF_vars(AssignedPodMoves) /\ WF_vars(AssignedPodDeleteMoves)
    /\ WF_vars(flushBackoffQCompleted /\ Flush)

FairSpec == Spec /\ Fairness

-----------------------------------------------------------------------------
(* Safety.                                                                 *)

HeldBy(w, p) == worker[w].pod = p

\* A pod the scheduler was told of and that still is to be scheduled is in the
\* queue, or a worker that puts it back when it fails is at it: no interleaving
\* of update events, skipped pods, failing binds, expired assumptions and refused
\* requeues loses it.
NoPodLost ==
    \A p \in Pods :
        SeenBy("queue", p) = "pending" /\ api[p] = "pending" =>
            \/ p \in Queued
            \/ \E w \in Workers : HeldBy(w, p) /\ worker[w].step # "nominate"

\* A pod that still is to be scheduled and was found not to fit waits in
\* unschedulableQ only as long as nothing changed that may help it: a change that
\* came while the pod was on its way to the queue sends it to podBackoffQ, one
\* that came later moves it.  In between is the handler that changed the cache and
\* has not called the queue yet.  (A pod bound elsewhere may be put back there by
\* a binding goroutine after its event was handled; nothing has to help it.)
NoLostMove ==
    \A p \in unschedulableQ \cap outdated :
        api[p] \in Unassigned => moving \cap {"removed", "node"} # {}

\* Once the handlers caught up and no worker is at the pod, the cache agrees with
\* the API server: a bound pod is added on its node, and a pod that is not bound
\* is not accounted for, except one that expires by itself (it was bound and
\* deleted before the informer saw it).
CacheConverges ==
    \A p \in Pods :
        /\ SeenBy("cache", p) = api[p]
        /\ \A w \in Workers : ~ HeldBy(w, p)
        => /\ api[p] \in Nodes => phase[p] = "Added" /\ p \in aggregated[api[p]]
           /\ api[p] \notin Nodes => \/ phase[p] = "Absent"
                                     \/ p \in expirable /\ api[p] = "gone"

-----------------------------------------------------------------------------
(* Liveness.                                                               *)

\* A pod that stays to be scheduled is tried again: activeQ is served in the order
\* of timestamps that are refreshed at each failure, backoff ends, and what is
\* left in unschedulableQ is moved after a minute without any event.
Retried ==
    \A p \in Pods :
        SeenBy("queue", p) = "pending" ~> HeldBy("loop", p) \/ api[p] # "pending"

\* A deleted pod leaves the queue for good, also one that a worker put back after
\* its deletion was handled: its next failure finds it missing in the lister.
DeletedLeaves == \A p \in Pods : api[p] = "gone" ~> [](p \notin Queued)

\* No assumption lasts for ever: the watch confirms it, the worker that made it
\* takes it back, or it expires, also that of a pod which was bound and deleted
\* before the informer saw it.
AssumptionsEnd == \A p \in Pods : phase[p] = "Assumed" ~> phase[p] # "Assumed"

-----------------------------------------------------------------------------
(* What a comment says that the code does not do.                          *)

\* scheduleOne, of AssumePod's refusal: "Error will check if the pod has been
\* bound to a node and if so will not add it back to the unscheduled pods queue
\* (otherwise this would cause an infinite loop)".  A pod that is bound, and that
\* the cache and the queue know is bound, is not scheduled for ever.
BoundNotRetried ==
    \A p \in Pods :
        <>[](SeenBy("queue", p) \in Nodes /\ phase[p] = "Added")
            => <>[](~ HeldBy("loop", p))

=============================================================================
