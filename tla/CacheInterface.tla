--------------------------- MODULE CacheInterface ---------------------------
(***************************************************************************)
(* What the scheduler cache promises its callers: the state machine of a   *)
(* pod's events drawn at the head of internal/cache/interface.go, together *)
(* with the node-level aggregates the generic scheduler reads.             *)
(*                                                                         *)
(* "Initial", "Expired" and "Deleted" pods do not exist in the cache, so   *)
(* the three are one phase here, "Absent".                                 *)
(***************************************************************************)

CONSTANTS
    Pods,       \* pod keys: the pod's UID, so a key is never used twice
    Nodes       \* node names

VARIABLES
    phase,      \* phase[p]: where pod p is in the state machine
    aggregated, \* aggregated[n]: the pods whose requests node n accounts for
    expirable   \* assumed pods whose binding finished: the only ones that expire

vars == <<phase, aggregated, expirable>>

-----------------------------------------------------------------------------

Init ==
    /\ phase = [p \in Pods |-> "Absent"]
    /\ aggregated = [n \in Nodes |-> {}]
    /\ expirable = {}

\* The pod's information is taken out of whichever node accounts for it.
Subtracted(p) == [n \in Nodes |-> aggregated[n] \ {p}]

\* AssumePod "assumes a pod scheduled and aggregates its information into its
\* node".
Assume(p, n) ==
    /\ phase[p] = "Absent"
    /\ phase' = [phase EXCEPT ![p] = "Assumed"]
    /\ aggregated' = [aggregated EXCEPT ![n] = @ \cup {p}]
    /\ UNCHANGED expirable

\* FinishBinding "signals that cache for assumed pod can be expired".
FinishBinding(p) ==
    /\ phase[p] = "Assumed"
    /\ expirable' = expirable \cup {p}
    /\ UNCHANGED <<phase, aggregated>>

\* ForgetPod "removes an assumed pod from cache".
Forget(p) ==
    /\ phase[p] = "Assumed"
    /\ phase' = [phase EXCEPT ![p] = "Absent"]
    /\ aggregated' = Subtracted(p)
    /\ expirable' = expirable \ {p}

\* An assumed pod no Add event confirmed expires, once its binding finished.
Expire(p) ==
    /\ p \in expirable
    /\ Forget(p)

\* AddPod "either confirms a pod if it's assumed, or adds it back if it's
\* expired"; a pod may also be added without going through the scheduler.  The
\* node is the one the event names, whatever node was assumed.
Add(p, n) ==
    /\ phase[p] \in {"Absent", "Assumed"}
    /\ phase' = [phase EXCEPT ![p] = "Added"]
    /\ aggregated' = [Subtracted(p) EXCEPT ![n] = @ \cup {p}]
    /\ expirable' = expirable \ {p}

\* RemovePod: "the pod's information would be subtracted from assigned node".
Remove(p) ==
    /\ phase[p] = "Added"
    /\ phase' = [phase EXCEPT ![p] = "Absent"]
    /\ aggregated' = Subtracted(p)
    /\ UNCHANGED expirable

Next ==
    \E p \in Pods :
        \/ FinishBinding(p) \/ Forget(p) \/ Expire(p) \/ Remove(p)
        \/ \E n \in Nodes : Assume(p, n) \/ Add(p, n)

Spec == Init /\ [][Next]_vars
=============================================================================
