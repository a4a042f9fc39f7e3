------------------------- MODULE WaitingPodsProofs -------------------------
(***************************************************************************)
(* Proofs about WaitingPods, for any number of pods, cycles, plugins and   *)
(* calls, under the assumption that no binding goroutine outlives the      *)
(* cache's ttl between FinishBinding and ForgetPod.                        *)
(***************************************************************************)
EXTENDS WaitingPods, TLAPS

Active(c) == cycle[c].stage \notin {"unused", "done"}

\* The cache keeps the cycles of a pod apart.
OneCycle ==
    /\ \A c \in Cycles : Active(c) => assumption[Pod(c)] # "none"
    /\ \A c \in Cycles : Active(c) /\ assumption[Pod(c)] = "expirable"
            => cycle[c].stage = "givingUp"
    /\ \A c, d \in Cycles : Active(c) /\ Active(d) /\ Pod(c) = Pod(d) => c = d

\* The cycle has no waitingPod yet, or needs none.
Unmade(c) ==
    \/ cycle[c].stage \in {"unused", "permit"}
    \/ cycle[c].stage = "started" /\ waitingPods[Pod(c)] # c

\* Nobody knows of a waitingPod that was not made.
UnmadeUnknown ==
    \A c \in Cycles : Unmade(c) =>
        /\ wp[c].pendingPlugins = {}
        /\ c \notin vetoed
        /\ \A k \in Plugins : wp[c].timers[k] = "off"
        /\ \A x \in Plugins \cup {"reject"} : <<c, x>> \notin calls

\* A cycle waits on its own waitingPod.
OnOwn == \A c \in Cycles : cycle[c].stage = "waiting" => cycle[c].on = c

Unanswered(c) ==
    /\ cycle[c].stage \in {"started", "waiting"}
    /\ waitingPods[Pod(c)] = c

\* What the channel has, and the answer taken from it.
Answers ==
    /\ \A c \in Cycles : wp[c].s = "Success" => wp[c].pendingPlugins = {}
    /\ \A c \in Cycles : Unanswered(c) /\ c \in vetoed => wp[c].s = "Unschedulable"
    /\ \A c \in Cycles : cycle[c].stage = "received" /\ cycle[c].status = "Success"
            => wp[c].pendingPlugins = {} /\ c \notin vetoed
    /\ \A c \in Cycles : cycle[c].stage = "received" =>
            cycle[c].status \in {"Success", "Unschedulable"}

\* As long as there is no answer, the plugins that did not allow the pod have
\* their timers, and there is such a plugin.
TimersLeft ==
    \A c \in Cycles : Unanswered(c) /\ wp[c].s = "none" =>
        /\ wp[c].pendingPlugins # {}
        /\ \A k \in wp[c].pendingPlugins : wp[c].timers[k] # "off"

WaitingInv ==
    /\ TypeOK
    /\ OneCycle
    /\ UnmadeUnknown
    /\ OnOwn
    /\ Answers
    /\ TimersLeft
    /\ MapExact
    /\ PermitRespected
    /\ VetoRespected

-----------------------------------------------------------------------------
(* A waitingPod.                                                           *)

WaitingPod == [pendingPlugins : SUBSET Plugins, timers : [Plugins -> Timer],
               s : Status]

\* Allow takes the plugin off the list, touches no other timer, and answers
\* success once the list is empty, unless there is an answer.
LEMMA AllowedByEffect ==
    ASSUME NEW w \in WaitingPod, NEW k \in Plugins
    PROVE  LET v == AllowedBy(w, k) IN
           /\ v \in WaitingPod
           /\ v.pendingPlugins = w.pendingPlugins \ {k}
           /\ v.s = IF w.s = "none" /\ v.pendingPlugins = {} THEN "Success" ELSE w.s
           /\ \A j \in Plugins : j # k => v.timers[j] = w.timers[j]
           /\ \A j \in Plugins : w.timers[j] = "off" => v.timers[j] = "off"
BY DEF AllowedBy, Stopped, Sent, WaitingPod, Timer, Status

\* Reject keeps the list, starts no timer, and leaves an answer.
LEMMA RejectedEffect ==
    ASSUME NEW w \in WaitingPod
    PROVE  LET v == Rejected(w) IN
           /\ v \in WaitingPod
           /\ v.pendingPlugins = w.pendingPlugins
           /\ v.s = IF w.s = "none" THEN "Unschedulable" ELSE w.s
           /\ \A j \in Plugins : w.timers[j] = "off" => v.timers[j] = "off"
BY DEF Rejected, Stopped, Sent, WaitingPod, Timer, Status

\* A fresh waitingPod has a timer for each plugin that asked to wait.
LEMMA NewWaitingPodEffect ==
    ASSUME NEW S \in SUBSET Plugins
    PROVE  LET v == newWaitingPod(S) IN
           /\ v \in WaitingPod
           /\ v.pendingPlugins = S
           /\ v.s = "none"
           /\ \A k \in S : v.timers[k] # "off"
BY DEF newWaitingPod, WaitingPod, Timer, Status

-----------------------------------------------------------------------------
(* The invariant holds initially and is kept.                              *)

\* A framework without waiting pods satisfies the invariant.
LEMMA WaitingInit == Init => WaitingInv
<1> SUFFICES ASSUME Init PROVE WaitingInv
  OBVIOUS
<1>1. TypeOK
  BY DEF Init, TypeOK, Stage, Timer, Status
<1>2. \A c \in Cycles : cycle[c].stage = "unused"
  BY DEF Init
<1>3. \A p \in Pods : waitingPods[p] = NoCycle
  BY DEF Init
<1>4. \A c \in Cycles : /\ wp[c].s = "none" /\ wp[c].pendingPlugins = {}
                        /\ \A k \in Plugins : wp[c].timers[k] = "off"
  BY DEF Init
<1>5. calls = {} /\ vetoed = {}
  BY DEF Init
<1>6. OneCycle /\ OnOwn
  BY <1>2 DEF OneCycle, OnOwn, Active
<1>7. UnmadeUnknown
  BY <1>4, <1>5 DEF UnmadeUnknown
<1>8. Answers /\ TimersLeft
  BY <1>2, <1>4 DEF Answers, TimersLeft, Unanswered
<1>9. MapExact /\ PermitRespected /\ VetoRespected
  BY <1>2, <1>3, <1>5 DEF MapExact, PermitRespected, VetoRespected
<1> QED BY <1>1, <1>6, <1>7, <1>8, <1>9 DEF WaitingInv

\* A call of Allow or Reject, or a timer, changes one waitingPod that was made:
\* what the change has to satisfy to keep the invariant.
LEMMA DecisionKeeps ==
    ASSUME WaitingInv, NEW c \in Cycles, NEW v \in WaitingPod, ~ Unmade(c),
           wp' = [wp EXCEPT ![c] = v],
           vetoed' \in SUBSET Cycles, vetoed \subseteq vetoed',
           vetoed' \subseteq vetoed \cup {c},
           calls' \subseteq calls,
           UNCHANGED <<waitingPods, cycle, assumption>>,
           v.pendingPlugins \subseteq wp[c].pendingPlugins,
           v.s = "Success" => v.pendingPlugins = {},
           wp[c].s # "none" => v.s = wp[c].s,
           v.s = "none" =>
              /\ wp[c].pendingPlugins # {} => v.pendingPlugins # {}
              /\ \A k \in v.pendingPlugins :
                    wp[c].timers[k] # "off" => v.timers[k] # "off",
           c \in vetoed' \ vetoed =>
              /\ wp[c].pendingPlugins # {}
              /\ v.s # "none"
              /\ wp[c].s = "none" => v.s = "Unschedulable"
    PROVE  WaitingInv'
<1> USE DEF Pod
<1>1. TypeOK'
  BY DEF WaitingInv, TypeOK, WaitingPod
<1>2. wp'[c] = v /\ \A d \in Cycles : d # c => wp'[d] = wp[d]
  BY DEF WaitingInv, TypeOK
<1>3. OneCycle' /\ OnOwn' /\ MapExact'
  BY DEF WaitingInv, OneCycle, OnOwn, MapExact, Active
<1>4. \A d \in Cycles : Unmade(d)' <=> Unmade(d)
  BY DEF Unmade
<1>5. UnmadeUnknown'
  BY <1>2, <1>4 DEF WaitingInv, UnmadeUnknown
<1>6. \A d \in Cycles : Unanswered(d)' <=> Unanswered(d)
  BY DEF Unanswered
<1>7. \A d \in Cycles : wp[d].s = "none" \/ wp[d].s = "Success" \/ wp[d].s = "Unschedulable"
  BY DEF WaitingInv, TypeOK, Status
<1>8. Answers'
  <2>1. \A d \in Cycles : wp'[d].s = "Success" => wp'[d].pendingPlugins = {}
    BY <1>2 DEF WaitingInv, Answers
  <2>2. ASSUME NEW d \in Cycles, Unanswered(d), d \in vetoed'
        PROVE  wp'[d].s = "Unschedulable"
    <3>1. CASE d \in vetoed
      BY <1>2, <2>2, <3>1 DEF WaitingInv, Answers
    <3>2. CASE d \notin vetoed
      <4>1. d = c /\ wp[c].pendingPlugins # {}
        BY <2>2, <3>2
      <4>2. wp[c].s # "Success"
        BY <4>1 DEF WaitingInv, Answers
      <4> QED BY <1>2, <1>7, <2>2, <3>2, <4>1, <4>2
    <3> QED BY <3>1, <3>2
  <2>3. ASSUME NEW d \in Cycles, cycle[d].stage = "received",
               cycle[d].status = "Success"
        PROVE  wp'[d].pendingPlugins = {} /\ d \notin vetoed'
    BY <1>2, <2>3 DEF WaitingInv, Answers
  <2>4. \A d \in Cycles : cycle[d].stage = "received" =>
            cycle[d].status \in {"Success", "Unschedulable"}
    BY DEF WaitingInv, Answers
  <2> QED BY <1>6, <2>1, <2>2, <2>3, <2>4 DEF Answers
<1>9. TimersLeft'
  <2> SUFFICES ASSUME NEW d \in Cycles, Unanswered(d), wp'[d].s = "none"
               PROVE  /\ wp'[d].pendingPlugins # {}
                      /\ \A k \in wp'[d].pendingPlugins : wp'[d].timers[k] # "off"
    BY <1>6 DEF TimersLeft
  <2>1. wp[d].s = "none"
    BY <1>2
  <2>2. /\ wp[d].pendingPlugins # {}
        /\ \A k \in wp[d].pendingPlugins : wp[d].timers[k] # "off"
    BY <2>1 DEF WaitingInv, TimersLeft
  <2> QED BY <1>2, <2>2
<1>10. PermitRespected'
  BY <1>2 DEF WaitingInv, PermitRespected
<1>11. VetoRespected'
  <2> SUFFICES ASSUME NEW d \in vetoed'
               PROVE  /\ cycle[d].stage # "binding"
                      /\ cycle[d].stage = "received" => cycle[d].status = "Unschedulable"
    BY DEF VetoRespected
  <2>1. CASE d \in vetoed
    BY <2>1 DEF WaitingInv, VetoRespected
  <2>2. CASE d \notin vetoed
    <3>1. d = c /\ wp[c].pendingPlugins # {}
      BY <2>2
    <3> QED BY <3>1 DEF WaitingInv, PermitRespected, Answers
  <2> QED BY <2>1, <2>2
<1> QED BY <1>1, <1>3, <1>5, <1>8, <1>9, <1>10, <1>11 DEF WaitingInv

\* Whoever has a waitingPod in hand has one that was made.
LEMMA KnownMade ==
    ASSUME WaitingInv, NEW c \in Cycles
    PROVE  /\ \A x \in Plugins \cup {"reject"} : <<c, x>> \in calls => ~ Unmade(c)
           /\ \A k \in Plugins : wp[c].timers[k] # "off" => ~ Unmade(c)
           /\ wp[c] \in WaitingPod
BY DEF WaitingInv, UnmadeUnknown, TypeOK, WaitingPod

\* Allow answers success only when it empties the list.
LEMMA AllowKeeps ==
    ASSUME WaitingInv, NEW c \in Cycles, NEW k \in Plugins, Allow(c, k)
    PROVE  WaitingInv'
<1> DEFINE v == AllowedBy(wp[c], k)
<1>1. ~ Unmade(c) /\ wp[c] \in WaitingPod
  BY KnownMade DEF Allow
<1>2. /\ v \in WaitingPod
      /\ v.pendingPlugins = wp[c].pendingPlugins \ {k}
      /\ v.s = IF wp[c].s = "none" /\ v.pendingPlugins = {} THEN "Success" ELSE wp[c].s
      /\ \A j \in Plugins : j # k => v.timers[j] = wp[c].timers[j]
  BY <1>1, AllowedByEffect
<1>3. wp' = [wp EXCEPT ![c] = v] /\ calls' \subseteq calls /\ vetoed' = vetoed
      /\ UNCHANGED <<waitingPods, cycle, assumption>>
  BY DEF Allow
<1>4. wp[c].s = "Success" => wp[c].pendingPlugins = {}
  BY DEF WaitingInv, Answers
<1>5. vetoed \in SUBSET Cycles /\ wp[c].pendingPlugins \subseteq Plugins
  BY DEF WaitingInv, TypeOK
<1> HIDE DEF v
<1>6. v.s = "Success" => v.pendingPlugins = {}
  BY <1>2, <1>4
<1>7. wp[c].s # "none" => v.s = wp[c].s
  BY <1>2
<1>8. v.s = "none" =>
         /\ wp[c].pendingPlugins # {} => v.pendingPlugins # {}
         /\ \A j \in v.pendingPlugins : wp[c].timers[j] # "off" => v.timers[j] # "off"
  BY <1>2, <1>5
<1> QED BY <1>1, <1>2, <1>3, <1>5, <1>6, <1>7, <1>8, DecisionKeeps

\* Reject, called on the waitingPod w, which differs from wp[c] in timers at most.
LEMMA VetoesKeeps ==
    ASSUME WaitingInv, NEW c \in Cycles, NEW w \in WaitingPod, ~ Unmade(c),
           w.pendingPlugins = wp[c].pendingPlugins, w.s = wp[c].s,
           Vetoes(c, w), calls' \subseteq calls,
           UNCHANGED <<waitingPods, cycle, assumption>>
    PROVE  WaitingInv'
<1> DEFINE v == Rejected(w)
<1>1. /\ v \in WaitingPod
      /\ v.pendingPlugins = wp[c].pendingPlugins
      /\ v.s = IF wp[c].s = "none" THEN "Unschedulable" ELSE wp[c].s
  BY RejectedEffect
<1>2. wp' = [wp EXCEPT ![c] = v]
  BY DEF Vetoes
<1>3. /\ vetoed' \in SUBSET Cycles /\ vetoed \subseteq vetoed'
      /\ vetoed' \subseteq vetoed \cup {c}
      /\ c \in vetoed' \ vetoed => wp[c].pendingPlugins # {}
  BY DEF Vetoes, WaitingInv, TypeOK
<1>4. wp[c].s = "Success" => wp[c].pendingPlugins = {}
  BY DEF WaitingInv, Answers
<1> HIDE DEF v
<1>5. v.s # "none" /\ (v.s = "Success" => v.pendingPlugins = {})
  BY <1>1, <1>4
<1> QED BY <1>1, <1>2, <1>3, <1>5, DecisionKeeps

\* Reject, by the deletion handler, preemption or a plugin, keeps the invariant.
LEMMA RejectKeeps ==
    ASSUME WaitingInv, NEW c \in Cycles, Reject(c)
    PROVE  WaitingInv'
<1>1. ~ Unmade(c) /\ wp[c] \in WaitingPod
  BY KnownMade DEF Reject
<1> QED BY <1>1, VetoesKeeps DEF Reject

\* A timer's function is a Reject, whatever happened since the timer fired.
LEMMA TimerRejectsKeeps ==
    ASSUME WaitingInv, NEW c \in Cycles, NEW k \in Plugins, TimerRejects(c, k)
    PROVE  WaitingInv'
<1> DEFINE w == [wp[c] EXCEPT !.timers[k] = "off"]
<1>1. ~ Unmade(c) /\ wp[c] \in WaitingPod
  BY KnownMade DEF TimerRejects
<1>2. w \in WaitingPod /\ w.pendingPlugins = wp[c].pendingPlugins /\ w.s = wp[c].s
  BY <1>1 DEF WaitingPod, Timer
<1>3. Vetoes(c, w) /\ calls' \subseteq calls /\ UNCHANGED <<waitingPods, cycle, assumption>>
  BY DEF TimerRejects
<1> HIDE DEF w
<1> QED BY <1>1, <1>2, <1>3, VetoesKeeps

\* A timer that fired still counts as a way to an answer.
LEMMA TimerFiresKeeps ==
    ASSUME WaitingInv, NEW c \in Cycles, NEW k \in Plugins, TimerFires(c, k)
    PROVE  WaitingInv'
<1> DEFINE v == [wp[c] EXCEPT !.timers[k] = "fired"]
<1>1. ~ Unmade(c) /\ wp[c] \in WaitingPod
  BY KnownMade DEF TimerFires
<1>2. /\ v \in WaitingPod /\ v.pendingPlugins = wp[c].pendingPlugins /\ v.s = wp[c].s
      /\ \A j \in Plugins : wp[c].timers[j] # "off" => v.timers[j] # "off"
  BY <1>1 DEF WaitingPod, Timer
<1>3. /\ wp' = [wp EXCEPT ![c] = v] /\ calls' = calls /\ vetoed' = vetoed
      /\ UNCHANGED <<waitingPods, cycle, assumption>>
  BY DEF TimerFires
<1>4. /\ wp[c].s = "Success" => wp[c].pendingPlugins = {}
      /\ vetoed \in SUBSET Cycles /\ wp[c].pendingPlugins \subseteq Plugins
  BY DEF WaitingInv, Answers, TypeOK
<1> HIDE DEF v
<1> QED BY <1>1, <1>2, <1>3, <1>4, DecisionKeeps

-----------------------------------------------------------------------------
(* The steps of a cycle.                                                   *)

Cycle == [stage : Stage, pod : Pods, on : Cycles \cup {NoCycle}, status : Status]

\* Going to another stage, and keeping a waitingPod or an answer, keeps the type.
LEMMA CycleTypes ==
    ASSUME WaitingInv, NEW c \in Cycles
    PROVE  /\ \A stage \in Stage : [cycle EXCEPT ![c].stage = stage] \in [Cycles -> Cycle]
           /\ \A stage \in Stage, d \in Cycles :
                 [cycle EXCEPT ![c].stage = stage, ![c].on = d] \in [Cycles -> Cycle]
           /\ \A stage \in Stage, status \in Status :
                 [cycle EXCEPT ![c].stage = stage, ![c].status = status]
                     \in [Cycles -> Cycle]
<1>1. cycle \in [Cycles -> Cycle]
  BY DEF WaitingInv, TypeOK, Cycle
<1>2. cycle[c] \in Cycle
  BY <1>1
<1>3. \A stage \in Stage : [cycle[c] EXCEPT !.stage = stage] \in Cycle
  BY <1>2 DEF Cycle
<1>4. \A stage \in Stage, d \in Cycles :
         [cycle[c] EXCEPT !.stage = stage, !.on = d] \in Cycle
  BY <1>2 DEF Cycle
<1>5. \A stage \in Stage, status \in Status :
         [cycle[c] EXCEPT !.stage = stage, !.status = status] \in Cycle
  BY <1>2 DEF Cycle
<1> QED BY <1>1, <1>3, <1>4, <1>5

\* A step from one stage to another that touches nothing but the cycle and its
\* pod's assumption, in a stage where the cycle has nothing to do with the map.
LEMMA StageKeeps ==
    ASSUME WaitingInv, NEW c \in Cycles, NEW stage \in Stage,
           To(c, stage),
           assumption' \in [Pods -> {"none", "assumed", "expirable"}],
           \A p \in Pods : p # Pod(c) => assumption'[p] = assumption[p],
           cycle[c].stage \in {"unused", "permit", "binding", "givingUp"},
           stage \in {"permit", "givingUp", "done"},
           stage = "permit" => cycle[c].stage = "unused",
           stage # "done" => assumption'[Pod(c)] # "none",
           stage = "permit" => assumption'[Pod(c)] = "assumed",
           Active(c) \/ assumption[Pod(c)] = "none",
           UNCHANGED <<waitingPods, wp, calls, vetoed>>
    PROVE  WaitingInv'
<1> USE DEF Pod
<1>1. /\ cycle'[c].stage = stage /\ cycle'[c].pod = cycle[c].pod
      /\ cycle'[c].on = cycle[c].on /\ cycle'[c].status = cycle[c].status
      /\ \A d \in Cycles : d # c => cycle'[d] = cycle[d]
      /\ \A d \in Cycles : cycle[d].pod \in Pods /\ cycle'[d].pod = cycle[d].pod
  BY DEF WaitingInv, TypeOK, To
<1>2. TypeOK'
  <2>1. cycle' \in [Cycles -> Cycle]
    BY CycleTypes DEF To
  <2> QED BY <2>1 DEF WaitingInv, TypeOK, Cycle
<1>3. waitingPods[Pod(c)] # c
  <2>1. c # NoCycle
    BY NoCycleAssumption
  <2> QED BY <1>1, <2>1 DEF WaitingInv, MapExact
<1>5. \A d \in Cycles : d # c /\ Active(d) /\ Active(c) => Pod(d) # Pod(c)
  BY DEF WaitingInv, OneCycle
<1>6. \A d \in Cycles : d # c /\ Active(d) => Pod(d) # Pod(c)
  BY <1>5 DEF WaitingInv, OneCycle
<1>7. OneCycle'
  <2>1. ASSUME NEW d \in Cycles, Active(d)'
        PROVE  /\ assumption'[Pod(d)] # "none"
               /\ assumption'[Pod(d)] = "expirable" => cycle'[d].stage = "givingUp"
    <3>1. CASE d = c
      BY <1>1, <2>1, <3>1 DEF Active
    <3>2. CASE d # c
      <4>1. Active(d) /\ Pod(d) # Pod(c)
        BY <1>1, <1>6, <2>1, <3>2 DEF Active
      <4> QED BY <1>1, <3>2, <4>1 DEF WaitingInv, OneCycle
    <3> QED BY <3>1, <3>2
  <2>2. \A d \in Cycles : d # c /\ Active(d)' => Active(d) /\ Pod(d) # Pod(c)
    BY <1>1, <1>6 DEF Active
  <2>3. \A d, e \in Cycles : Active(d)' /\ Active(e)' /\ Pod(d)' = Pod(e)' => d = e
    BY <1>1, <2>2 DEF WaitingInv, OneCycle
  <2>4. \A d \in Cycles : Pod(d)' = Pod(d)
    BY <1>1
  <2> QED BY <1>1, <2>1, <2>3, <2>4 DEF OneCycle
<1>8. \A d \in Cycles : Unmade(d)' => Unmade(d)
  BY <1>1 DEF Unmade
<1>9. UnmadeUnknown'
  BY <1>8 DEF WaitingInv, UnmadeUnknown
<1>10. OnOwn'
  BY <1>1 DEF WaitingInv, OnOwn
<1>11. \A d \in Cycles : Unanswered(d)' => Unanswered(d)
  BY <1>1 DEF Unanswered
<1>12. Answers' /\ TimersLeft'
  BY <1>1, <1>11 DEF WaitingInv, Answers, TimersLeft
<1>13. MapExact'
  <2>1. \A d \in Cycles : cycle'[d].stage \in {"waiting", "received"}
            => waitingPods[Pod(d)] = d
    BY <1>1 DEF WaitingInv, MapExact
  <2>2. ASSUME NEW p \in Pods, waitingPods[p] # NoCycle
        PROVE  /\ Pod(waitingPods[p]) = p
               /\ cycle'[waitingPods[p]].stage \in {"started", "waiting", "received"}
               /\ Pod(waitingPods[p])' = p
    <3>1. Pod(waitingPods[p]) = p /\ waitingPods[p] \in Cycles
      BY <2>2 DEF WaitingInv, MapExact, TypeOK
    <3>2. waitingPods[p] # c
      BY <1>3, <3>1
    <3> QED BY <1>1, <2>2, <3>1, <3>2 DEF WaitingInv, MapExact
  <2>3. \A d \in Cycles : Pod(d)' = Pod(d)
    BY <1>1
  <2> QED BY <2>1, <2>2, <2>3 DEF MapExact
<1>14. PermitRespected' /\ VetoRespected'
  <2>1. PermitRespected'
    BY <1>1 DEF WaitingInv, PermitRespected
  <2>2. vetoed \subseteq Cycles
    BY DEF WaitingInv, TypeOK
  <2>3. VetoRespected'
    BY <1>1, <2>2 DEF WaitingInv, VetoRespected
  <2> QED BY <2>1, <2>3
<1> QED BY <1>2, <1>7, <1>9, <1>10, <1>12, <1>13, <1>14 DEF WaitingInv

\* A new cycle starts only when no other cycle of the pod is under way.
LEMMA AssumeKeeps ==
    ASSUME WaitingInv, NEW c \in Cycles, Assume(c)
    PROVE  WaitingInv'
<1>1. Pod(c) \in Pods
  BY DEF WaitingInv, TypeOK, Pod
<1>2. assumption' = [assumption EXCEPT ![Pod(c)] = "assumed"]
  BY DEF Assume
<1>3. /\ assumption' \in [Pods -> {"none", "assumed", "expirable"}]
      /\ \A p \in Pods : p # Pod(c) => assumption'[p] = assumption[p]
      /\ assumption'[Pod(c)] = "assumed"
  BY <1>1, <1>2 DEF WaitingInv, TypeOK
<1>4. /\ To(c, "permit") /\ cycle[c].stage = "unused" /\ assumption[Pod(c)] = "none"
      /\ UNCHANGED <<waitingPods, wp, calls, vetoed>>
  BY DEF Assume
<1> QED BY <1>3, <1>4, StageKeeps DEF Stage

\* A failing permit plugin leaves no waitingPod behind.
LEMMA FailsKeeps ==
    ASSUME WaitingInv, NEW c \in Cycles, RunPermitPluginsFails(c)
    PROVE  WaitingInv'
<1>1. Active(c) /\ assumption[Pod(c)] # "none"
  BY DEF RunPermitPluginsFails, Active, WaitingInv, OneCycle
<1>2. assumption' = assumption /\ assumption \in [Pods -> {"none", "assumed", "expirable"}]
  BY DEF RunPermitPluginsFails, WaitingInv, TypeOK
<1> QED BY <1>1, <1>2, StageKeeps DEF RunPermitPluginsFails, Stage

\* The end of the binding leaves the map alone.
LEMMA BindingEndsKeeps ==
    ASSUME WaitingInv, NEW c \in Cycles, BindingEnds(c)
    PROVE  WaitingInv'
<1>1. Active(c) /\ assumption[Pod(c)] # "none" /\ Pod(c) \in Pods
  BY DEF BindingEnds, Active, WaitingInv, OneCycle, TypeOK, Pod
<1>2. /\ assumption' \in [Pods -> {"none", "assumed", "expirable"}]
      /\ \A p \in Pods : p # Pod(c) => assumption'[p] = assumption[p]
      /\ assumption'[Pod(c)] # "none"
  BY <1>1 DEF BindingEnds, WaitingInv, TypeOK
<1>3. /\ To(c, "givingUp") \/ To(c, "done")
      /\ cycle[c].stage = "binding" /\ UNCHANGED <<waitingPods, wp, calls, vetoed>>
  BY DEF BindingEnds
<1> QED BY <1>1, <1>2, <1>3, StageKeeps DEF Stage

\* The cycle ends with its assumption.
LEMMA ForgetPodKeeps ==
    ASSUME WaitingInv, NEW c \in Cycles, ForgetPod(c)
    PROVE  WaitingInv'
<1>1. Active(c) /\ Pod(c) \in Pods
  BY DEF ForgetPod, Active, WaitingInv, TypeOK, Pod
<1>2. /\ assumption' \in [Pods -> {"none", "assumed", "expirable"}]
      /\ \A p \in Pods : p # Pod(c) => assumption'[p] = assumption[p]
  BY <1>1 DEF ForgetPod, WaitingInv, TypeOK
<1>3. /\ To(c, "done")
      /\ cycle[c].stage = "givingUp" /\ UNCHANGED <<waitingPods, wp, calls, vetoed>>
  BY DEF ForgetPod
<1> QED BY <1>1, <1>2, <1>3, StageKeeps DEF Stage

\* Without stalls an assumption expires only when no cycle of the pod is left.
LEMMA ExpirePodKeeps ==
    ASSUME ~ Stalls, WaitingInv, NEW p \in Pods, ExpirePod(p)
    PROVE  WaitingInv'
<1> USE DEF Pod
<1>1. TypeOK'
  BY DEF ExpirePod, WaitingInv, TypeOK
<1>2. \A c \in Cycles : Active(c) => Pod(c) # p
  BY DEF ExpirePod, WaitingInv, OneCycle
<1>3. \A q \in Pods : q # p => assumption'[q] = assumption[q]
  BY DEF ExpirePod, WaitingInv, TypeOK
<1>4. \A c \in Cycles : Pod(c) \in Pods
  BY DEF WaitingInv, TypeOK
<1>5. OneCycle'
  BY <1>2, <1>3, <1>4 DEF ExpirePod, WaitingInv, OneCycle, Active
<1>6. UNCHANGED <<waitingPods, cycle, wp, calls, vetoed>>
  BY DEF ExpirePod
<1> QED BY <1>1, <1>5, <1>6 DEF WaitingInv, UnmadeUnknown, Unmade, OnOwn, Answers,
       Unanswered, TimersLeft, MapExact, PermitRespected, VetoRespected

\* The map hands out only waitingPods that were made.
LEMMA GetWaitingPodKeeps ==
    ASSUME WaitingInv, NEW p \in Pods, NEW x \in Plugins \cup {"reject"},
           GetWaitingPod(p, x)
    PROVE  WaitingInv'
<1> USE DEF Pod
<1>1. waitingPods[p] \in Cycles
  BY DEF GetWaitingPod, WaitingInv, TypeOK
<1>2. TypeOK'
  BY <1>1 DEF GetWaitingPod, WaitingInv, TypeOK
<1>3. ~ Unmade(waitingPods[p])
  BY <1>1 DEF GetWaitingPod, WaitingInv, MapExact, Unmade
<1>4. UNCHANGED <<waitingPods, cycle, wp, assumption, vetoed>>
      /\ calls' = calls \cup {<<waitingPods[p], x>>}
  BY DEF GetWaitingPod
<1>5. \A c \in Cycles : Unmade(c)' <=> Unmade(c)
  BY <1>4 DEF Unmade
<1>6. UnmadeUnknown'
  <2> SUFFICES ASSUME NEW c \in Cycles, Unmade(c)
               PROVE  /\ wp[c].pendingPlugins = {} /\ c \notin vetoed
                      /\ \A k \in Plugins : wp[c].timers[k] = "off"
                      /\ \A y \in Plugins \cup {"reject"} : <<c, y>> \notin calls'
    BY <1>4, <1>5 DEF UnmadeUnknown
  <2>1. c # waitingPods[p]
    BY <1>3
  <2> QED BY <1>4, <2>1 DEF WaitingInv, UnmadeUnknown
<1> QED BY <1>2, <1>4, <1>6 DEF WaitingInv, OneCycle, Active, OnOwn, Answers,
       Unanswered, TimersLeft, MapExact, PermitRespected, VetoRespected

\* A cycle under way is the only one of its pod, and the map has its waitingPod for
\* the pod or none.
LEMMA Alone ==
    ASSUME WaitingInv, NEW c \in Cycles, Active(c)
    PROVE  /\ \A d \in Cycles : d # c /\ Active(d) => Pod(d) # Pod(c)
           /\ waitingPods[Pod(c)] \in {c, NoCycle}
<1>1. \A d \in Cycles : d # c /\ Active(d) => Pod(d) # Pod(c)
  BY DEF WaitingInv, OneCycle
<1>2. Pod(c) \in Pods /\ waitingPods[Pod(c)] \in Cycles \cup {NoCycle}
  BY DEF WaitingInv, TypeOK, Pod
<1>3. waitingPods[Pod(c)] # NoCycle =>
         Active(waitingPods[Pod(c)]) /\ Pod(waitingPods[Pod(c)]) = Pod(c)
  BY <1>2 DEF WaitingInv, MapExact, Active
<1> QED BY <1>1, <1>2, <1>3

\* A cycle under way that goes on under the same assumption.
LEMMA GoingOn ==
    ASSUME WaitingInv, NEW c \in Cycles, Active(c), cycle[c].stage # "givingUp",
           cycle'[c].pod = cycle[c].pod, Active(c)',
           \A d \in Cycles : d # c => cycle'[d] = cycle[d],
           assumption' = assumption
    PROVE  OneCycle'
<1>1. \A d \in Cycles : Pod(d)' = Pod(d)
  BY DEF Pod
<1>2. \A d \in Cycles : Active(d)' => Active(d)
  BY DEF Active
<1>3. \A d \in Cycles : Active(d) /\ assumption[Pod(d)] = "expirable" =>
         d # c /\ cycle[d].stage = "givingUp"
  BY DEF WaitingInv, OneCycle
<1> QED BY <1>1, <1>2, <1>3 DEF WaitingInv, OneCycle

\* A cycle goes on and the map stays as it is.
LEMMA MapKept ==
    ASSUME WaitingInv, NEW c \in Cycles, waitingPods' = waitingPods,
           cycle'[c].pod = cycle[c].pod,
           \A d \in Cycles : d # c => cycle'[d] = cycle[d],
           cycle'[c].stage \in {"waiting", "received"} => waitingPods[Pod(c)] = c,
           waitingPods[Pod(c)] = c =>
              cycle'[c].stage \in {"started", "waiting", "received"}
    PROVE  MapExact'
<1>1. \A d \in Cycles : Pod(d)' = Pod(d)
  BY DEF Pod
<1>2. \A d \in Cycles : cycle'[d].stage \in {"waiting", "received"}
          => waitingPods[Pod(d)] = d
  BY DEF WaitingInv, MapExact
<1>3. ASSUME NEW p \in Pods, waitingPods[p] # NoCycle
      PROVE  /\ Pod(waitingPods[p])' = p
             /\ cycle'[waitingPods[p]].stage \in {"started", "waiting", "received"}
  <2>1. Pod(waitingPods[p]) = p /\ waitingPods[p] \in Cycles
    BY <1>3 DEF WaitingInv, MapExact, TypeOK
  <2>2. CASE waitingPods[p] = c
    BY <1>1, <2>1, <2>2
  <2>3. CASE waitingPods[p] # c
    BY <1>1, <1>3, <2>1, <2>3 DEF WaitingInv, MapExact
  <2> QED BY <2>2, <2>3
<1> QED BY <1>1, <1>2, <1>3 DEF MapExact

\* The new waitingPod overwrites no other: the map has none for the pod.
LEMMA RunPermitPluginsKeeps ==
    ASSUME WaitingInv, NEW c \in Cycles, NEW S \in SUBSET Plugins, RunPermitPlugins(c, S)
    PROVE  WaitingInv'
<1> USE DEF Pod
<1>1. /\ cycle'[c].stage = "started" /\ cycle'[c].pod = cycle[c].pod
      /\ \A d \in Cycles : d # c => cycle'[d] = cycle[d]
      /\ \A d \in Cycles : cycle[d].pod \in Pods /\ cycle'[d].pod = cycle[d].pod
  BY DEF RunPermitPlugins, To, WaitingInv, TypeOK
<1>2. /\ cycle[c].stage = "permit" /\ Active(c) /\ Active(c)' /\ Unmade(c)
      /\ UNCHANGED <<calls, assumption, vetoed>>
  BY <1>1 DEF RunPermitPlugins, Active, Unmade
<1>3. OneCycle'
  BY <1>1, <1>2, GoingOn
<1>4. cycle' \in [Cycles -> Cycle]
  BY CycleTypes DEF RunPermitPlugins, To, Stage
<1>5. waitingPods[Pod(c)] = NoCycle
  <2>1. waitingPods[Pod(c)] # c
    BY <1>1, <1>2, NoCycleAssumption DEF WaitingInv, MapExact
  <2> QED BY <1>2, <2>1, Alone
<1>6. /\ wp[c].pendingPlugins = {} /\ c \notin vetoed
      /\ \A k \in Plugins : wp[c].timers[k] = "off"
      /\ \A x \in Plugins \cup {"reject"} : <<c, x>> \notin calls
  BY <1>2 DEF WaitingInv, UnmadeUnknown
<1>7. OnOwn'
  BY <1>1 DEF WaitingInv, OnOwn
<1>8. VetoRespected'
  BY <1>1, <1>2 DEF WaitingInv, VetoRespected, TypeOK
<1>9. CASE S = {}
  <2>1. UNCHANGED <<waitingPods, wp>>
    BY <1>9 DEF RunPermitPlugins
  <2>2. TypeOK'
    BY <1>2, <1>4, <2>1 DEF WaitingInv, TypeOK, Cycle
  <2>3. \A d \in Cycles : Unmade(d)' => Unmade(d)
    BY <1>1, <1>2, <2>1 DEF Unmade
  <2>4. UnmadeUnknown'
    BY <1>2, <2>1, <2>3 DEF WaitingInv, UnmadeUnknown
  <2>5. \A d \in Cycles : Unanswered(d)' => Unanswered(d)
    BY <1>1, <1>5, <2>1, NoCycleAssumption DEF Unanswered
  <2>6. Answers' /\ TimersLeft'
    BY <1>1, <1>2, <2>1, <2>5 DEF WaitingInv, Answers, TimersLeft
  <2>7. MapExact' /\ PermitRespected'
    <3>1. waitingPods[Pod(c)] # c
      BY <1>5, NoCycleAssumption
    <3>2. MapExact'
      BY <1>1, <2>1, <3>1, MapKept
    <3> QED BY <1>1, <2>1, <3>2 DEF WaitingInv, PermitRespected
  <2> QED BY <1>3, <1>7, <1>8, <2>2, <2>4, <2>6, <2>7 DEF WaitingInv
<1>10. CASE S # {}
  <2> DEFINE v == newWaitingPod(S)
  <2>1. /\ v \in WaitingPod /\ v.pendingPlugins = S /\ v.s = "none"
        /\ \A k \in S : v.timers[k] # "off"
    BY NewWaitingPodEffect
  <2>2. wp' = [wp EXCEPT ![c] = v] /\ waitingPods' = [waitingPods EXCEPT ![Pod(c)] = c]
    BY <1>10 DEF RunPermitPlugins
  <2> HIDE DEF v
  <2>3. TypeOK'
    BY <1>1, <1>2, <1>4, <2>1, <2>2 DEF WaitingInv, TypeOK, Cycle, WaitingPod
  <2>4. /\ wp'[c] = v /\ \A d \in Cycles : d # c => wp'[d] = wp[d]
        /\ waitingPods'[Pod(c)] = c
        /\ \A p \in Pods : p # Pod(c) => waitingPods'[p] = waitingPods[p]
    BY <1>1, <2>2 DEF WaitingInv, TypeOK
  <2>5. \A d \in Cycles : d # c /\ Active(d) =>
           Pod(d) # Pod(c) /\ waitingPods'[Pod(d)] = waitingPods[Pod(d)]
    BY <1>1, <1>2, <2>4, Alone
  <2>6. \A d \in Cycles : Unmade(d)' => d # c /\ Unmade(d)
    BY <1>1, <2>4, <2>5 DEF Unmade, Active
  <2>7. UnmadeUnknown'
    BY <1>2, <2>4, <2>6 DEF WaitingInv, UnmadeUnknown
  <2>8. \A d \in Cycles : d # c /\ Unanswered(d)' => Unanswered(d)
    BY <1>1, <2>5 DEF Unanswered, Active
  <2>9. Answers'
    <3>1. \A d \in Cycles : wp'[d].s = "Success" => wp'[d].pendingPlugins = {}
      BY <2>1, <2>4 DEF WaitingInv, Answers
    <3>2. \A d \in Cycles : Unanswered(d)' /\ d \in vetoed' => wp'[d].s = "Unschedulable"
      BY <1>2, <1>6, <2>4, <2>8 DEF WaitingInv, Answers
    <3>3. \A d \in Cycles : cycle'[d].stage = "received" => d # c
      BY <1>1
    <3> QED BY <1>1, <1>2, <2>4, <3>1, <3>2, <3>3 DEF WaitingInv, Answers
  <2>10. TimersLeft'
    BY <1>10, <2>1, <2>4, <2>8 DEF WaitingInv, TimersLeft
  <2>11. MapExact'
    <3>1. \A d \in Cycles : cycle'[d].stage \in {"waiting", "received"}
              => waitingPods'[Pod(d)] = d
      BY <1>1, <2>5 DEF WaitingInv, MapExact, Active
    <3>2. ASSUME NEW p \in Pods, waitingPods'[p] # NoCycle
          PROVE  /\ Pod(waitingPods'[p]) = p
                 /\ cycle'[waitingPods'[p]].stage \in {"started", "waiting", "received"}
                 /\ waitingPods'[p] \in Cycles
      <4>1. CASE p = Pod(c)
        BY <1>1, <2>4, <4>1
      <4>2. CASE p # Pod(c)
        <5>1. /\ waitingPods'[p] = waitingPods[p] /\ waitingPods[p] \in Cycles
              /\ Pod(waitingPods[p]) = p
          BY <2>4, <3>2, <4>2 DEF WaitingInv, MapExact, TypeOK
        <5>2. waitingPods[p] # c
          BY <4>2, <5>1
        <5> QED BY <1>1, <3>2, <5>1, <5>2 DEF WaitingInv, MapExact
      <4> QED BY <4>1, <4>2
    <3>3. \A d \in Cycles : Pod(d)' = Pod(d)
      BY <1>1
    <3> QED BY <3>1, <3>2, <3>3 DEF MapExact
  <2>12. PermitRespected'
    BY <1>1, <2>4 DEF WaitingInv, PermitRespected
  <2> QED BY <1>3, <1>7, <1>8, <2>3, <2>7, <2>9, <2>10, <2>11, <2>12 DEF WaitingInv
<1> QED BY <1>9, <1>10

\* The goroutine finds its own waitingPod, or none because no plugin asked to
\* wait.
LEMMA WaitOnPermitKeeps ==
    ASSUME WaitingInv, NEW c \in Cycles, WaitOnPermit(c)
    PROVE  WaitingInv'
<1> USE DEF Pod
<1>1. /\ cycle[c].stage = "started" /\ Active(c)
      /\ UNCHANGED <<waitingPods, wp, calls, assumption, vetoed>>
  BY DEF WaitOnPermit, Active
<1>2. waitingPods[Pod(c)] \in {c, NoCycle}
  BY <1>1, Alone
<1>3. /\ cycle' \in [Cycles -> Cycle]
      /\ cycle'[c].pod = cycle[c].pod
      /\ \A d \in Cycles : d # c => cycle'[d] = cycle[d]
      /\ waitingPods[Pod(c)] = NoCycle => cycle'[c].stage = "binding"
      /\ waitingPods[Pod(c)] = c => cycle'[c].stage = "waiting" /\ cycle'[c].on = c
  <2>1. cycle \in [Cycles -> Cycle]
    BY DEF WaitingInv, TypeOK, Cycle
  <2>2. CASE waitingPods[Pod(c)] = NoCycle
    <3>1. cycle' = [cycle EXCEPT ![c].stage = "binding"]
      BY <2>2 DEF WaitOnPermit, To
    <3>2. cycle' \in [Cycles -> Cycle]
      BY <3>1, CycleTypes DEF Stage
    <3> QED BY <2>1, <2>2, <3>1, <3>2, NoCycleAssumption DEF Cycle
  <2>3. CASE waitingPods[Pod(c)] = c
    <3>1. cycle' = [cycle EXCEPT ![c].stage = "waiting", ![c].on = c]
      BY <2>3, NoCycleAssumption DEF WaitOnPermit
    <3>2. cycle' \in [Cycles -> Cycle]
      BY <3>1, CycleTypes DEF Stage
    <3> QED BY <2>1, <2>3, <3>1, <3>2, NoCycleAssumption DEF Cycle
  <2> QED BY <1>2, <2>2, <2>3
<1>4. /\ cycle'[c].pod = cycle[c].pod
      /\ \A d \in Cycles : d # c => cycle'[d] = cycle[d]
      /\ \A d \in Cycles : cycle[d].pod \in Pods /\ cycle'[d].pod = cycle[d].pod
      /\ waitingPods[Pod(c)] = NoCycle => cycle'[c].stage = "binding"
      /\ waitingPods[Pod(c)] = c => cycle'[c].stage = "waiting" /\ cycle'[c].on = c
  <2>1. \A d \in Cycles : cycle[d].pod \in Pods
    BY DEF WaitingInv, TypeOK
  <2> QED BY <1>3, <2>1
<1>5. TypeOK'
  BY <1>1, <1>3 DEF WaitingInv, TypeOK, Cycle
<1>6. OneCycle'
  <2>1. Active(c)'
    BY <1>2, <1>4 DEF Active
  <2> QED BY <1>1, <1>4, <2>1, GoingOn
<1>7. \A d \in Cycles : Unmade(d)' => Unmade(d)
  BY <1>1, <1>2, <1>4 DEF Unmade
<1>8. UnmadeUnknown'
  BY <1>1, <1>7 DEF WaitingInv, UnmadeUnknown
<1>9. OnOwn'
  BY <1>2, <1>4 DEF WaitingInv, OnOwn
<1>10. \A d \in Cycles : Unanswered(d)' => Unanswered(d)
  BY <1>1, <1>2, <1>4 DEF Unanswered
<1>11. \A d \in Cycles : cycle'[d].stage = "received" => d # c
  BY <1>2, <1>4
<1>12. Answers' /\ TimersLeft'
  BY <1>1, <1>4, <1>10, <1>11 DEF WaitingInv, Answers, TimersLeft
<1>13. MapExact'
  BY <1>1, <1>2, <1>4, NoCycleAssumption, MapKept
<1>14. waitingPods[Pod(c)] = NoCycle => wp[c].pendingPlugins = {} /\ c \notin vetoed
  BY <1>1, NoCycleAssumption DEF WaitingInv, UnmadeUnknown, Unmade
<1>15. PermitRespected'
  BY <1>1, <1>2, <1>4, <1>14 DEF WaitingInv, PermitRespected
<1>16. VetoRespected'
  <2>1. vetoed \subseteq Cycles
    BY DEF WaitingInv, TypeOK
  <2> QED BY <1>1, <1>2, <1>4, <1>14, <2>1 DEF WaitingInv, VetoRespected
<1> QED BY <1>5, <1>6, <1>8, <1>9, <1>12, <1>13, <1>15, <1>16 DEF WaitingInv

\* The status received is the first answer.
LEMMA ReceiveKeeps ==
    ASSUME WaitingInv, NEW c \in Cycles, Receive(c)
    PROVE  WaitingInv'
<1> USE DEF Pod
<1>1. /\ cycle[c].stage = "waiting" /\ cycle[c].on = c /\ Active(c)
      /\ waitingPods[Pod(c)] = c
      /\ UNCHANGED <<waitingPods, calls, assumption, vetoed>>
  BY DEF Receive, Active, WaitingInv, OnOwn, MapExact
<1>2. /\ wp[c].s \in Status /\ wp[c].s # "none" /\ wp[c] \in WaitingPod
      /\ cycle' = [cycle EXCEPT ![c].stage = "received", ![c].status = wp[c].s]
      /\ wp' = [wp EXCEPT ![c].s = "none"]
  BY <1>1 DEF Receive, WaitingInv, TypeOK, WaitingPod
<1>3. cycle' \in [Cycles -> Cycle]
  BY <1>2, CycleTypes DEF Stage
<1>4. /\ cycle'[c].pod = cycle[c].pod /\ cycle'[c].stage = "received"
      /\ cycle'[c].status = wp[c].s
      /\ \A d \in Cycles : d # c => cycle'[d] = cycle[d]
      /\ \A d \in Cycles : cycle[d].pod \in Pods /\ cycle'[d].pod = cycle[d].pod
  BY <1>2 DEF WaitingInv, TypeOK
<1>5. /\ wp'[c].pendingPlugins = wp[c].pendingPlugins /\ wp'[c].timers = wp[c].timers
      /\ wp'[c].s = "none"
      /\ \A d \in Cycles : d # c => wp'[d] = wp[d]
  BY <1>2 DEF WaitingInv, TypeOK
<1>6. TypeOK'
  <2>1. wp' \in [Cycles -> WaitingPod]
    BY <1>2 DEF WaitingInv, TypeOK, WaitingPod, Status
  <2> QED BY <1>1, <1>3, <2>1 DEF WaitingInv, TypeOK, Cycle, WaitingPod
<1>7. OneCycle'
  <2>1. Active(c)'
    BY <1>4 DEF Active
  <2> QED BY <1>1, <1>4, <2>1, GoingOn
<1>8. \A d \in Cycles : Unmade(d)' => d # c /\ Unmade(d)
  BY <1>1, <1>4 DEF Unmade
<1>9. UnmadeUnknown'
  BY <1>1, <1>5, <1>8 DEF WaitingInv, UnmadeUnknown
<1>10. OnOwn'
  BY <1>4 DEF WaitingInv, OnOwn
<1>11. \A d \in Cycles : Unanswered(d)' => d # c /\ Unanswered(d)
  BY <1>1, <1>4 DEF Unanswered
<1>12. /\ wp[c].s = "Success" => wp[c].pendingPlugins = {}
       /\ c \in vetoed => wp[c].s = "Unschedulable"
  BY <1>1 DEF WaitingInv, Answers, Unanswered
<1>13. Answers'
  <2>1. \A d \in Cycles : wp'[d].s = "Success" => wp'[d].pendingPlugins = {}
    BY <1>5 DEF WaitingInv, Answers
  <2>2. \A d \in Cycles : Unanswered(d)' /\ d \in vetoed' => wp'[d].s = "Unschedulable"
    BY <1>1, <1>5, <1>11 DEF WaitingInv, Answers
  <2>3. \A d \in Cycles : cycle'[d].stage = "received" /\ cycle'[d].status = "Success"
            => wp'[d].pendingPlugins = {} /\ d \notin vetoed'
    BY <1>1, <1>4, <1>5, <1>12 DEF WaitingInv, Answers
  <2>4. \A d \in Cycles : cycle'[d].stage = "received" =>
            cycle'[d].status \in {"Success", "Unschedulable"}
    BY <1>2, <1>4 DEF WaitingInv, Answers, Status
  <2> QED BY <2>1, <2>2, <2>3, <2>4 DEF Answers
<1>14. TimersLeft'
  BY <1>5, <1>11 DEF WaitingInv, TimersLeft
<1>15. MapExact'
  BY <1>1, <1>4, MapKept
<1>16. PermitRespected'
  BY <1>4, <1>5 DEF WaitingInv, PermitRespected
<1>17. VetoRespected'
  <2>1. vetoed \subseteq Cycles
    BY DEF WaitingInv, TypeOK
  <2> QED BY <1>1, <1>4, <1>12, <2>1 DEF WaitingInv, VetoRespected
<1> QED BY <1>6, <1>7, <1>9, <1>10, <1>13, <1>14, <1>15, <1>16, <1>17 DEF WaitingInv

\* The entry that is removed is the cycle's own.
LEMMA RemoveKeeps ==
    ASSUME WaitingInv, NEW c \in Cycles, Remove(c)
    PROVE  WaitingInv'
<1> USE DEF Pod
<1> DEFINE stage == IF cycle[c].status = "Success" THEN "binding" ELSE "givingUp"
<1>1. /\ cycle[c].stage = "received" /\ Active(c) /\ waitingPods[Pod(c)] = c
      /\ UNCHANGED <<wp, calls, assumption, vetoed>>
  BY DEF Remove, Active, WaitingInv, MapExact
<1>2. cycle' = [cycle EXCEPT ![c].stage = stage] /\ stage \in Stage
  BY DEF Remove, To, Stage
<1>3. cycle' \in [Cycles -> Cycle]
  BY <1>2, CycleTypes
<1>4. /\ cycle'[c].pod = cycle[c].pod /\ cycle'[c].stage = stage
      /\ \A d \in Cycles : d # c => cycle'[d] = cycle[d]
      /\ \A d \in Cycles : cycle[d].pod \in Pods /\ cycle'[d].pod = cycle[d].pod
  BY <1>2 DEF WaitingInv, TypeOK
<1>5. /\ waitingPods'[Pod(c)] = NoCycle
      /\ \A p \in Pods : p # Pod(c) => waitingPods'[p] = waitingPods[p]
      /\ waitingPods' \in [Pods -> Cycles \cup {NoCycle}]
  BY <1>4 DEF Remove, WaitingInv, TypeOK
<1>6. TypeOK'
  BY <1>1, <1>3, <1>5 DEF WaitingInv, TypeOK, Cycle
<1>7. OneCycle'
  <2>1. Active(c)'
    BY <1>4 DEF Active
  <2> QED BY <1>1, <1>4, <2>1, GoingOn
<1>8. \A d \in Cycles : d # c /\ Active(d) =>
         Pod(d) # Pod(c) /\ waitingPods'[Pod(d)] = waitingPods[Pod(d)]
  BY <1>1, <1>4, <1>5, Alone
<1>9. \A d \in Cycles : Unmade(d)' => Unmade(d)
  BY <1>4, <1>8 DEF Unmade, Active
<1>10. UnmadeUnknown'
  BY <1>1, <1>9 DEF WaitingInv, UnmadeUnknown
<1>11. OnOwn'
  BY <1>4 DEF WaitingInv, OnOwn
<1>12. \A d \in Cycles : Unanswered(d)' => Unanswered(d)
  BY <1>4, <1>8 DEF Unanswered, Active
<1>13. \A d \in Cycles : cycle'[d].stage = "received" => d # c
  BY <1>4
<1>14. Answers' /\ TimersLeft'
  BY <1>1, <1>4, <1>12, <1>13 DEF WaitingInv, Answers, TimersLeft
<1>15. MapExact'
  <2>1. \A d \in Cycles : cycle'[d].stage \in {"waiting", "received"}
            => waitingPods'[Pod(d)] = d
    BY <1>4, <1>8 DEF WaitingInv, MapExact, Active
  <2>2. ASSUME NEW p \in Pods, waitingPods'[p] # NoCycle
        PROVE  /\ Pod(waitingPods'[p]) = p /\ waitingPods'[p] \in Cycles
               /\ cycle'[waitingPods'[p]].stage \in {"started", "waiting", "received"}
    <3>1. p # Pod(c) /\ waitingPods'[p] = waitingPods[p]
      BY <1>5, <2>2
    <3>2. Pod(waitingPods[p]) = p /\ waitingPods[p] \in Cycles
      BY <2>2, <3>1 DEF WaitingInv, MapExact, TypeOK
    <3>3. waitingPods[p] # c
      BY <3>1, <3>2
    <3> QED BY <1>4, <2>2, <3>1, <3>2, <3>3 DEF WaitingInv, MapExact
  <2>3. \A d \in Cycles : Pod(d)' = Pod(d)
    BY <1>4
  <2> QED BY <2>1, <2>2, <2>3 DEF MapExact
<1>16. stage = "binding" => wp[c].pendingPlugins = {} /\ c \notin vetoed
  BY <1>1 DEF WaitingInv, Answers
<1>17. PermitRespected'
  BY <1>1, <1>4, <1>16 DEF WaitingInv, PermitRespected
<1>18. VetoRespected'
  <2>1. vetoed \subseteq Cycles
    BY DEF WaitingInv, TypeOK
  <2> QED BY <1>1, <1>4, <1>16, <2>1 DEF WaitingInv, VetoRespected
<1> QED BY <1>6, <1>7, <1>10, <1>11, <1>14, <1>15, <1>17, <1>18 DEF WaitingInv

-----------------------------------------------------------------------------
(* The theorems.                                                           *)

\* Every step keeps the invariant.
LEMMA WaitingNext ==
    ASSUME ~ Stalls, WaitingInv, [Next]_vars
    PROVE  WaitingInv'
<1>1. CASE UNCHANGED vars
  BY <1>1 DEF vars, WaitingInv, TypeOK, OneCycle, Active, Pod, UnmadeUnknown, Unmade,
     OnOwn, Answers, Unanswered, TimersLeft, MapExact, PermitRespected, VetoRespected
<1>2. CASE \E c \in Cycles : Goroutine(c)
  BY <1>2, RunPermitPluginsKeeps, FailsKeeps, WaitOnPermitKeeps, ReceiveKeeps,
     RemoveKeeps, BindingEndsKeeps, ForgetPodKeeps DEF Goroutine
<1>3. CASE \E c \in Cycles : \/ Assume(c) \/ Reject(c)
                             \/ \E k \in Plugins : \/ Allow(c, k) \/ TimerFires(c, k)
                                                   \/ TimerRejects(c, k)
  BY <1>3, AssumeKeeps, RejectKeeps, AllowKeeps, TimerFiresKeeps, TimerRejectsKeeps
<1>4. CASE \E p \in Pods : \/ ExpirePod(p)
                           \/ \E x \in Plugins \cup {"reject"} : GetWaitingPod(p, x)
  BY <1>4, ExpirePodKeeps, GetWaitingPodKeeps
<1> QED BY <1>1, <1>2, <1>3, <1>4 DEF Next

\* The invariant holds in every state of a scheduler without stalls.
THEOREM WaitingInvariant ==
    ASSUME ~ Stalls
    PROVE  Spec => []WaitingInv
<1>1. WaitingInv /\ [Next]_vars => WaitingInv'
  BY WaitingNext
<1> QED BY <1>1, WaitingInit, PTL DEF Spec

\* No pod gets past WaitOnPermit before every plugin that asked to wait has
\* allowed it, and a rejection that comes before the last Allow is final.
THEOREM WaitingAnswers ==
    ASSUME ~ Stalls
    PROVE  Spec => []AnswersRespected
<1>1. WaitingInv => AnswersRespected
  BY DEF WaitingInv, AnswersRespected
<1> QED BY <1>1, WaitingInvariant, PTL

\* The map has the pods that wait, and nothing else.
THEOREM WaitingMapExact ==
    ASSUME ~ Stalls
    PROVE  Spec => []MapExact
<1>1. WaitingInv => MapExact
  BY DEF WaitingInv
<1> QED BY <1>1, WaitingInvariant, PTL

\* A pod that waits has an answer in the channel or a timer that will give one.
THEOREM WaitCanEnd ==
    ASSUME ~ Stalls
    PROVE  Spec => []NoDeadWait
<1>1. WaitingInv => NoDeadWait
  <2> SUFFICES ASSUME WaitingInv, NEW c \in Cycles, cycle[c].stage = "waiting",
                      wp[c].s = "none"
               PROVE  \E k \in Plugins : wp[c].timers[k] # "off"
    BY DEF NoDeadWait
  <2>1. Unanswered(c)
    BY DEF WaitingInv, MapExact, Unanswered
  <2>2. /\ wp[c].pendingPlugins # {} /\ wp[c].pendingPlugins \subseteq Plugins
        /\ \A k \in wp[c].pendingPlugins : wp[c].timers[k] # "off"
    BY <2>1 DEF WaitingInv, TimersLeft, TypeOK
  <2> QED BY <2>2
<1> QED BY <1>1, WaitingInvariant, PTL
=============================================================================
