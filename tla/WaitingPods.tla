---------------------------- MODULE WaitingPods ----------------------------
(***************************************************************************)
(* The pods that wait in the Permit phase: waitingPodsMap and waitingPod   *)
(* of framework/runtime/waiting_pods_map.go, RunPermitPlugins and          *)
(* WaitOnPermit of framework.go.                                           *)
(*                                                                         *)
(* A binding cycle that must wait makes a waitingPod, puts it into the map *)
(* under the pod's UID, and its goroutine later takes it out of the map    *)
(* and waits on its channel of capacity one.  The plugins' timers, the     *)
(* plugins' Allow and Reject, the deletion handler's RejectWaitingPod and  *)
(* preemption race for that channel; each got its waitingPod from the map  *)
(* and may act on it at any later time.                                    *)
(*                                                                         *)
(* That two cycles of a pod do not meet in the map is up to the scheduler  *)
(* cache, which refuses to assume an assumed pod; its part in this, see    *)
(* SchedulerCache, is kept in assumption.  No other client binds a pod     *)
(* while it waits here.                                                    *)
(***************************************************************************)
EXTENDS Naturals, FiniteSets

CONSTANTS
    Pods,       \* pod UIDs
    Cycles,     \* bound: the scheduling cycles there can be
    Plugins,    \* permit plugins
    MaxCalls,   \* bound: calls of Allow and Reject under way at once
    NoCycle,    \* no cycle, no waitingPod
    Stalls      \* a binding goroutine may take longer than the cache's ttl from
                \*   FinishBinding to ForgetPod

VARIABLES
    waitingPods,    \* waitingPods[p]: the cycle whose waitingPod the map has for p
    cycle,          \* cycle[c]: the scheduling and binding cycle
    wp,             \* wp[c]: the waitingPod that c made
    calls,          \* calls of Allow and Reject on their way to a waitingPod
    assumption,     \* assumption[p]: what the scheduler cache holds of p
    vetoed          \* history: cycles whose waitingPod was rejected while one of
                    \*   its plugins had not allowed it

vars == <<waitingPods, cycle, wp, calls, assumption, vetoed>>

ASSUME NoCycleAssumption == NoCycle \notin Cycles
ASSUME MaxCallsAssumption == MaxCalls \in Nat
ASSUME StallsAssumption == Stalls \in BOOLEAN
ASSUME RejectAssumption == "reject" \notin Plugins

-----------------------------------------------------------------------------

Stage == {"unused",
          "permit",     \* assumed: RunPermitPlugins is next
          "started",    \* the goroutine calls WaitOnPermit
          "waiting",    \* it has a waitingPod and receives from its channel
          "received",   \* it has its status: the deferred remove is next
          "binding",    \* WaitOnPermit returned nil
          "givingUp",   \* Unreserve runs, ForgetPod is next
          "done"}

Timer == {"off", "running", "fired"}    \* fired: its function waits for the lock

Status == {"none", "Success", "Unschedulable"}

TypeOK ==
    /\ waitingPods \in [Pods -> Cycles \cup {NoCycle}]
    /\ cycle \in [Cycles -> [stage : Stage, pod : Pods, on : Cycles \cup {NoCycle},
                             status : Status]]
    /\ wp \in [Cycles -> [pendingPlugins : SUBSET Plugins,
                          timers : [Plugins -> Timer], s : Status]]
    /\ calls \subseteq Cycles \X (Plugins \cup {"reject"})
    /\ assumption \in [Pods -> {"none", "assumed", "expirable"}]
    /\ vetoed \subseteq Cycles

Init ==
    /\ waitingPods = [p \in Pods |-> NoCycle]
    /\ cycle \in [Cycles -> [stage : {"unused"}, pod : Pods, on : {NoCycle},
                             status : {"none"}]]
    /\ wp = [c \in Cycles |-> [pendingPlugins |-> {},
                               timers |-> [k \in Plugins |-> "off"], s |-> "none"]]
    /\ calls = {}
    /\ assumption = [p \in Pods |-> "none"]
    /\ vetoed = {}

Pod(c) == cycle[c].pod

To(c, stage) == cycle' = [cycle EXCEPT ![c].stage = stage]

-----------------------------------------------------------------------------
(* A waitingPod w.                                                         *)

\* Mutant: no timers.
newWaitingPodUntimed(S) ==
    [pendingPlugins |-> S, timers |-> [k \in Plugins |-> "off"], s |-> "none"]

newWaitingPod(S) ==
    [pendingPlugins |-> S,
     timers |-> [k \in Plugins |-> IF k \in S THEN "running" ELSE "off"],
     s |-> "none"]

\* Mutant: the status in the channel is replaced.
SentOver(w, status) == [w EXCEPT !.s = status]

\* The non-blocking send: a full channel keeps what it has.
Sent(w, status) == IF w.s = "none" THEN [w EXCEPT !.s = status] ELSE w

\* Stop of a timer that fired does not call its function back.
Stopped(w, S) ==
    [w EXCEPT !.timers = [k \in Plugins |->
        IF k \in S /\ w.timers[k] = "running" THEN "off" ELSE w.timers[k]]]

AllowedBy(w, k) ==
    LET v == [Stopped(w, {k} \cap w.pendingPlugins)
                EXCEPT !.pendingPlugins = @ \ {k}]
    IN  IF v.pendingPlugins # {} THEN v ELSE Sent(v, "Success")

\* Mutant: the timers are stopped and nothing is sent.
Silenced(w) == Stopped(w, w.pendingPlugins)

Rejected(w) == Sent(Stopped(w, w.pendingPlugins), "Unschedulable")

-----------------------------------------------------------------------------
(* The scheduling cycle and the binding goroutine.                         *)

\* scheduleOne assumes the pod, which the cache refuses for an assumed pod.
Assume(c) ==
    /\ cycle[c].stage = "unused"
    /\ assumption[Pod(c)] = "none"
    /\ assumption' = [assumption EXCEPT ![Pod(c)] = "assumed"]
    /\ To(c, "permit")
    /\ UNCHANGED <<waitingPods, wp, calls, vetoed>>

\* S are the plugins that return Wait.
RunPermitPlugins(c, S) ==
    /\ cycle[c].stage = "permit"
    /\ IF S = {}
       THEN UNCHANGED <<waitingPods, wp>>
       ELSE /\ wp' = [wp EXCEPT ![c] = newWaitingPod(S)]
            /\ waitingPods' = [waitingPods EXCEPT ![Pod(c)] = c]
    /\ To(c, "started")
    /\ UNCHANGED <<calls, assumption, vetoed>>

\* A plugin rejects the pod or fails.
RunPermitPluginsFails(c) ==
    /\ cycle[c].stage = "permit"
    /\ To(c, "givingUp")
    /\ UNCHANGED <<waitingPods, wp, calls, assumption, vetoed>>

\* WaitOnPermit looks the waitingPod up by the pod's UID.
WaitOnPermit(c) ==
    /\ cycle[c].stage = "started"
    /\ IF waitingPods[Pod(c)] = NoCycle
       THEN To(c, "binding")
       ELSE cycle' = [cycle EXCEPT ![c].stage = "waiting",
                                   ![c].on = waitingPods[Pod(c)]]
    /\ UNCHANGED <<waitingPods, wp, calls, assumption, vetoed>>

Receive(c) ==
    /\ cycle[c].stage = "waiting"
    /\ wp[cycle[c].on].s # "none"
    /\ cycle' = [cycle EXCEPT ![c].stage = "received",
                              ![c].status = wp[cycle[c].on].s]
    /\ wp' = [wp EXCEPT ![cycle[c].on].s = "none"]
    /\ UNCHANGED <<waitingPods, calls, assumption, vetoed>>

\* Mutant: the waitingPod stays in the map.
LeavesEntry(c) ==
    /\ cycle[c].stage = "received"
    /\ To(c, IF cycle[c].status = "Success" THEN "binding" ELSE "givingUp")
    /\ UNCHANGED <<waitingPods, wp, calls, assumption, vetoed>>

\* The deferred remove, and the end of WaitOnPermit.
Remove(c) ==
    /\ cycle[c].stage = "received"
    /\ waitingPods' = [waitingPods EXCEPT ![Pod(c)] = NoCycle]
    /\ To(c, IF cycle[c].status = "Success" THEN "binding" ELSE "givingUp")
    /\ UNCHANGED <<wp, calls, assumption, vetoed>>

\* PreBind fails, or the bind call returns and FinishBinding is called.
BindingEnds(c) ==
    /\ cycle[c].stage = "binding"
    /\ \/ /\ To(c, "givingUp")
          /\ UNCHANGED assumption
       \/ /\ To(c, "done") \/ To(c, "givingUp")
          /\ assumption' = [assumption EXCEPT ![Pod(c)] =
                               IF @ = "none" THEN @ ELSE "expirable"]
    /\ UNCHANGED <<waitingPods, wp, calls, vetoed>>

ForgetPod(c) ==
    /\ cycle[c].stage = "givingUp"
    /\ assumption' = [assumption EXCEPT ![Pod(c)] = "none"]
    /\ To(c, "done")
    /\ UNCHANGED <<waitingPods, wp, calls, vetoed>>

\* The cache's sweep.
ExpirePod(p) ==
    /\ assumption[p] = "expirable"
    /\ \/ Stalls
       \/ \A c \in Cycles : Pod(c) = p => cycle[c].stage # "givingUp"
    /\ assumption' = [assumption EXCEPT ![p] = "none"]
    /\ UNCHANGED <<waitingPods, cycle, wp, calls, vetoed>>

-----------------------------------------------------------------------------
(* Those who decide about a waiting pod.                                   *)

\* GetWaitingPod, IterateOverWaitingPods and the first half of RejectWaitingPod
\* hand out the waitingPod; what is to be called on it is a plugin to allow, or
\* "reject".
GetWaitingPod(p, call) ==
    /\ waitingPods[p] # NoCycle
    /\ Cardinality(calls) < MaxCalls
    /\ calls' = calls \cup {<<waitingPods[p], call>>}
    /\ UNCHANGED <<waitingPods, cycle, wp, assumption, vetoed>>

Allow(c, k) ==
    /\ <<c, k>> \in calls
    /\ calls' = calls \ {<<c, k>>}
    /\ wp' = [wp EXCEPT ![c] = AllowedBy(wp[c], k)]
    /\ UNCHANGED <<waitingPods, cycle, assumption, vetoed>>

\* wp[c] is rejected; w is the waitingPod it is before.
Vetoes(c, w) ==
    /\ wp' = [wp EXCEPT ![c] = Rejected(w)]
    /\ vetoed' = IF w.pendingPlugins # {} THEN vetoed \cup {c} ELSE vetoed

Reject(c) ==
    /\ <<c, "reject">> \in calls
    /\ calls' = calls \ {<<c, "reject">>}
    /\ Vetoes(c, wp[c])
    /\ UNCHANGED <<waitingPods, cycle, assumption>>

\* The plugin's time is over.
TimerFires(c, k) ==
    /\ wp[c].timers[k] = "running"
    /\ wp' = [wp EXCEPT ![c].timers[k] = "fired"]
    /\ UNCHANGED <<waitingPods, cycle, calls, assumption, vetoed>>

\* The timer's function calls Reject, also if the timer was stopped meanwhile.
TimerRejects(c, k) ==
    /\ wp[c].timers[k] = "fired"
    /\ Vetoes(c, [wp[c] EXCEPT !.timers[k] = "off"])
    /\ UNCHANGED <<waitingPods, cycle, calls, assumption>>

-----------------------------------------------------------------------------

Goroutine(c) ==
    \/ \E S \in SUBSET Plugins : RunPermitPlugins(c, S)
    \/ RunPermitPluginsFails(c)
    \/ WaitOnPermit(c)
    \/ Receive(c)
    \/ Remove(c)
    \/ BindingEnds(c)
    \/ ForgetPod(c)

Next ==
    \/ \E c \in Cycles :
          \/ Assume(c)
          \/ Goroutine(c)
          \/ Reject(c)
          \/ \E k \in Plugins : Allow(c, k) \/ TimerFires(c, k) \/ TimerRejects(c, k)
    \/ \E p \in Pods :
          \/ ExpirePod(p)
          \/ \E call \in Plugins \cup {"reject"} : GetWaitingPod(p, call)

Spec == Init /\ [][Next]_vars

\* Goroutines run and time passes; nobody has to call Allow or Reject.
Fairness ==
    \A c \in Cycles :
        /\ WF_vars(Goroutine(c))
        /\ \A k \in Plugins : WF_vars(TimerFires(c, k)) /\ WF_vars(TimerRejects(c, k))

FairSpec == Spec /\ Fairness

-----------------------------------------------------------------------------
(* Properties.                                                             *)

\* A pod is bound only once every plugin that asked to wait has allowed it,
\* whatever the order of timers, Allow, Reject and the goroutine.
PermitRespected ==
    \A c \in Cycles : cycle[c].stage = "binding" => wp[c].pendingPlugins = {}

\* A rejection that comes while a plugin has not allowed the pod is final: no
\* later Allow, and no race for the channel or with the receiver, binds the pod.
VetoRespected ==
    \A c \in vetoed :
        /\ cycle[c].stage # "binding"
        /\ cycle[c].stage = "received" => cycle[c].status = "Unschedulable"

\* No plugin's permission is presumed and no plugin's veto overruled.
AnswersRespected == PermitRespected /\ VetoRespected

\* The map has the waiting pods: Allow and RejectWaitingPod reach a pod that
\* waits, and no cycle that ended, nor one of another pod, stays behind to answer
\* for a later one.
MapExact ==
    /\ \A c \in Cycles :
          cycle[c].stage \in {"waiting", "received"} => waitingPods[Pod(c)] = c
    /\ \A p \in Pods : waitingPods[p] # NoCycle =>
          /\ Pod(waitingPods[p]) = p
          /\ cycle[waitingPods[p]].stage \in {"started", "waiting", "received"}

\* A pod waits only while a timer will still reject it: a Stop never takes the
\* last way to an answer without leaving an answer in the channel.
NoDeadWait ==
    \A c \in Cycles :
        cycle[c].stage = "waiting" =>
            \/ wp[c].s # "none"
            \/ \E k \in Plugins : wp[c].timers[k] # "off"

\* Every wait ends.
WaitEnds == \A c \in Cycles : cycle[c].stage = "waiting" ~> cycle[c].stage # "waiting"
=============================================================================
