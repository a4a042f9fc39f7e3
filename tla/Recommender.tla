---------------------------- MODULE Recommender ----------------------------
(***************************************************************************)
(* The recommender process: RunOnce of recommender/routines/recommender.go *)
(* with the cluster state feeder, the checkpoint writer and the observer   *)
(* of OOMs, over restarts.                                                 *)
(*                                                                         *)
(* One goroutine loads VPAs, pods and samples into memory, drains the      *)
(* observer's channel and writes checkpoints; the pod informer and the     *)
(* watch of evictions fill that channel from goroutines of their own.  A   *)
(* crash loses memory; what the API server holds survives.                 *)
(*                                                                         *)
(* Each container has a name and an aggregation of its own and one VPA     *)
(* that selects it (ClusterState models the links).  A memory histogram is *)
(* the bag of the peaks in it, each the end of its window and the usage;   *)
(* time is counted in ticks.                                               *)
(***************************************************************************)
EXTENDS Integers, Sequences, FiniteSets, Bags, TLC

CONSTANTS
    Vpas,           \* VPA objects
    Containers,     \* containers
    VpaOf,          \* VpaOf[c]: the VPA whose target the container belongs to
    Interval,       \* MemoryAggregationInterval, in ticks
    Request,        \* memory request of a container
    OOMBumpUp,      \* how much more memory than used an OOM asks for
    MinCheckpoints, \* the flag min-checkpoints
    ChannelSize,    \* capacity of the observer's channel
    MemorySaveMode, \* the flag memory-saver
    Metered,        \* bound: the containers with memory metrics
    Killed,         \* bound: the containers that run out of memory
    MaxUsage,       \* bound: memory usage
    MaxTime,        \* bound: ticks
    MaxLag,         \* bound: how many ticks old a sample may be
    MaxEvents,      \* bound: OOM kills, evictions and new watches of the evictions
    MaxFaults       \* bound: faults, failed listings, late samples, deleted VPAs

ASSUME VpaOfAssumption == VpaOf \in [Containers -> Vpas]
ASSUME VpasAssumption == IsFiniteSet(Vpas)
ASSUME BoundsAssumption == Metered \subseteq Containers /\ Killed \subseteq Containers
ASSUME NumbersAssumption ==
    /\ {Interval, ChannelSize, MaxTime} \subseteq Nat \ {0}
    /\ {Request, OOMBumpUp, MinCheckpoints, MaxUsage, MaxLag,
        MaxEvents, MaxFaults} \subseteq Nat

VARIABLES
    now,            \* the time; 0 is the zero time
    api,            \* what the API server holds: VPA objects, checkpoints, evictions
    streams,        \* OOMs on their way to the observer, from each of its sources
    channel,        \* observedOomsChannel
    memory,         \* the cluster state
    loop,           \* where RunOnce is
    faults,         \* number of faults
    events,         \* number of OOM kills, evictions and new watches
    forgotten,      \* history: containers whose checkpoint this process has not
                    \*   restored, or has restored and dropped again
    disturbed,      \* history: containers with a sample from before the checkpoint
                    \*   that was restored, or whose window was dropped
    recorded        \* history: the OOMs this process has recorded

vars == <<now, api, streams, channel, memory, loop, faults, events,
          forgotten, disturbed, recorded>>

-----------------------------------------------------------------------------

Sources == {"informer", "evictions"}

OomInfo == [container : Containers, time : 1 .. MaxTime]

\* windowEnd is 0 before the first sample.
NewContainerState == [windowEnd |-> 0, memoryPeak |-> 0, oomPeak |-> 0, last |-> 0]

\* A map of the program with no keys.
EmptyMap == [c \in {} |-> 0]

\* known[v]: whether the VPA is in the model, and whether its selector is
\* labels.Nothing(); written[v]: the rank of CheckpointWritten, 0 for the zero time.
\* initial, live and containers are maps, whose domains are the containers in them.
NewMemory ==
    [known      |-> [v \in Vpas |-> "no"],
     written    |-> [v \in Vpas |-> 0],
     initial    |-> EmptyMap,
     live       |-> EmptyMap,
     containers |-> EmptyMap]

NewLoop == [pc |-> "init", todo |-> <<>>, pending |-> {}, budget |-> 0,
            start |-> 0, expired |-> FALSE]

Init ==
    /\ now = 1
    /\ api = [vpas   |-> Vpas,
              saved  |-> EmptyMap,
              savedAt |-> [c \in Containers |-> 0],
              events |-> {}]
    /\ streams = [s \in Sources |-> <<>>]
    /\ channel = <<>>
    /\ memory = NewMemory
    /\ loop = NewLoop
    /\ faults = 0
    /\ events = 0
    /\ forgotten = {}
    /\ disturbed = {}
    /\ recorded = {}

\* Something fails or is late.
Fault ==
    /\ faults < MaxFaults
    /\ faults' = faults + 1

At(pc) == loop.pc = pc

Goto(pc) == loop' = [loop EXCEPT !.pc = pc]

\* The histogram of c in a map of histograms.
Entries(map, c) == IF c \in DOMAIN map THEN map[c] ELSE EmptyBag

-----------------------------------------------------------------------------
(* The environment.                                                        *)

Tick ==
    /\ now < MaxTime
    /\ now' = now + 1
    /\ UNCHANGED <<api, streams, channel, memory, loop, faults, events,
                   forgotten, disturbed, recorded>>

CreateVpa(v) ==
    /\ v \notin api.vpas
    /\ api' = [api EXCEPT !.vpas = @ \cup {v}]
    /\ UNCHANGED <<now, streams, channel, memory, loop, faults, events,
                   forgotten, disturbed, recorded>>

DeleteVpa(v) ==
    /\ v \in api.vpas
    /\ Fault
    /\ api' = [api EXCEPT !.vpas = @ \ {v}]
    /\ UNCHANGED <<now, streams, channel, memory, loop, events,
                   forgotten, disturbed, recorded>>

\* A container is killed for its memory: an update of its pod tells the informer.
\* While the process is down nobody is told, and OnAdd ignores it afterwards.
OOMKill(c) ==
    LET info == [container |-> c, time |-> now]
    IN  /\ events < MaxEvents
        /\ events' = events + 1
        /\ streams' = IF At("down") THEN streams
                      ELSE [streams EXCEPT !["informer"] = Append(@, info)]
        /\ UNCHANGED <<now, api, channel, memory, loop, faults,
                       forgotten, disturbed, recorded>>

\* A container is evicted for its memory: the event stays on the API server.
Evict(c) ==
    LET info == [container |-> c, time |-> now]
    IN  /\ events < MaxEvents
        /\ info \notin api.events
        /\ events' = events + 1
        /\ api' = [api EXCEPT !.events = @ \cup {info}]
        /\ streams' = IF At("down") THEN streams
                      ELSE [streams EXCEPT !["evictions"] = Append(@, info)]
        /\ UNCHANGED <<now, channel, memory, loop, faults,
                       forgotten, disturbed, recorded>>

Crash ==
    /\ ~ At("down")
    /\ Fault
    /\ loop' = [NewLoop EXCEPT !.pc = "down"]
    /\ memory' = NewMemory
    /\ streams' = [s \in Sources |-> <<>>]
    /\ channel' = <<>>
    /\ recorded' = {}
    /\ forgotten' = {}
    /\ UNCHANGED <<now, api, events, disturbed>>

\* The orders in which a watch without a resource version reports the evictions.
Replays ==
    {q \in [1 .. Cardinality(api.events) -> api.events] :
        {q[i] : i \in DOMAIN q} = api.events}

Restart ==
    /\ At("down")
    /\ loop' = NewLoop
    /\ \E q \in Replays : streams' = [streams EXCEPT !["evictions"] = q]
    /\ UNCHANGED <<now, api, channel, memory, faults, events,
                   forgotten, disturbed, recorded>>

-----------------------------------------------------------------------------
(* The observer.                                                           *)

\* OnUpdate or OnEvent sends to the channel, and waits while it is full.
Observe(s) ==
    /\ streams[s] # <<>>
    /\ Len(channel) < ChannelSize
    /\ channel' = Append(channel, Head(streams[s]))
    /\ streams' = [streams EXCEPT ![s] = Tail(@)]
    /\ UNCHANGED <<now, api, memory, loop, faults, events,
                   forgotten, disturbed, recorded>>

\* WatchEvictionEventsWithRetries: the watch was closed and is opened again.
Rewatch ==
    /\ ~ At("down")
    /\ streams["evictions"] = <<>>
    /\ api.events # {}
    /\ events < MaxEvents
    /\ events' = events + 1
    /\ \E q \in Replays : streams' = [streams EXCEPT !["evictions"] = q]
    /\ UNCHANGED <<now, api, channel, memory, loop, faults,
                   forgotten, disturbed, recorded>>

-----------------------------------------------------------------------------
(* Loading VPAs and checkpoints.                                           *)

\* What LoadVPAs leaves in the model when the selectors of bad cannot be fetched.
\* A VPA whose selector changes is deleted and made anew.
Known(bad) ==
    [v \in Vpas |-> IF v \notin api.vpas THEN "no"
                    ELSE IF v \in bad THEN "nothing" ELSE "selects"]

Loaded(known) ==
    LET Kept == {v \in Vpas : known[v] = memory.known[v]}
    IN  [memory EXCEPT
            !.known   = known,
            !.written = [v \in Vpas |-> IF v \in Kept THEN @[v] ELSE 0],
            !.initial = [c \in {d \in DOMAIN @ : VpaOf[d] \in Kept} |-> @[c]]]

\* LoadVPAs, for InitFromCheckpoints, for RunOnce and for GarbageCollectCheckpoints.
LoadVPAs ==
    /\ loop.pc \in {"init", "vpas", "gc"}
    /\ Goto(CASE At("init") -> "restore" [] At("vpas") -> "pods" [] At("gc") -> "collect")
    /\ \/ Fault /\ UNCHANGED memory
       \/ \E v \in api.vpas : Fault /\ memory' = Loaded(Known({v}))
       \/ memory' = Loaded(Known({})) /\ UNCHANGED faults
    /\ forgotten' = forgotten
          \cup (DOMAIN memory.initial \ DOMAIN memory'.initial)
          \cup {c \in Containers : memory.known[VpaOf[c]] # "no"
                                /\ memory'.known[VpaOf[c]] = "no"}
    /\ UNCHANGED <<now, api, streams, channel, events, disturbed, recorded>>

\* InitFromCheckpoints, after its LoadVPAs: setVpaCheckpoint of every checkpoint.
InitFromCheckpoints ==
    /\ At("restore")
    /\ Goto("vpas")
    /\ \/ Fault /\ UNCHANGED memory
       \/ /\ memory' = [memory EXCEPT !.initial =
                [c \in {d \in DOMAIN api.saved : memory.known[VpaOf[d]] # "no"} |->
                    api.saved[c]]]
          /\ UNCHANGED faults
    /\ forgotten' = DOMAIN api.saved \ DOMAIN memory'.initial
    /\ UNCHANGED <<now, api, streams, channel, events, disturbed, recorded>>

-----------------------------------------------------------------------------
(* Loading pods and samples.                                               *)

\* matchesVPA.
MatchesVPA(c) == memory.known[VpaOf[c]] = "selects"

\* LoadPods.  When the pods cannot be listed it removes all of them.
LoadPods ==
    LET New == {c \in Containers \ DOMAIN memory.containers :
                    MemorySaveMode => MatchesVPA(c)}
    IN  /\ At("pods")
        /\ Goto("metrics")
        /\ \/ /\ memory' = [memory EXCEPT
                    !.containers = [c \in DOMAIN @ \cup New |->
                        IF c \in New THEN NewContainerState ELSE @[c]],
                    !.live = [c \in DOMAIN @ \cup New |-> Entries(@, c)]]
              /\ UNCHANGED <<faults, disturbed>>
           \/ /\ Fault
              /\ memory' = [memory EXCEPT !.containers = EmptyMap]
              /\ disturbed' = disturbed \cup
                    {c \in DOMAIN memory.containers : memory.containers[c].windowEnd # 0}
        /\ UNCHANGED <<now, api, streams, channel, events, forgotten, recorded>>

Larger(a, b) == IF a > b THEN a ELSE b

GetMaxMemoryPeak(state) == Larger(state.memoryPeak, state.oomPeak)

Peak(end, usage) == SetToBag({<<end, usage>>})

PeakReplaced(live, end, old, usage) == (live (-) Peak(end, old)) (+) Peak(end, usage)

\* addMemorySample: the container's state and its aggregation after it.
addMemorySample(state, live, time, usage, isOOM) ==
    LET end   == IF state.windowEnd = 0 THEN time ELSE state.windowEnd
        old   == GetMaxMemoryPeak(state)
        shift == time - end - ((time - end) % Interval) + Interval
        opens == time >= end
        next  == IF opens THEN end + shift ELSE end
        adds  == opens \/ (old # 0 /\ usage > old)
    IN  IF ~ isOOM /\ time < state.last
        THEN [state |-> state, live |-> live]
        ELSE [state |->
                 [windowEnd  |-> next,
                  last       |-> time,
                  memoryPeak |-> IF adds /\ ~ isOOM THEN usage
                                 ELSE IF opens THEN 0 ELSE state.memoryPeak,
                  oomPeak    |-> IF adds /\ isOOM THEN usage
                                 ELSE IF opens THEN 0 ELSE state.oomPeak],
              live  |->
                 IF opens THEN live (+) Peak(next, usage)
                 ELSE IF adds THEN PeakReplaced(live, next, old, usage) ELSE live]

\* Containers with a sample from before the checkpoint they were restored from.
Outdated(C, time) ==
    {c \in C \cap DOMAIN memory.initial : time < api.savedAt[c]}

\* The memory samples of LoadRealTimeMetrics.  Not every container has one, and a usage
\* of zero is valid.
LoadRealTimeMetrics ==
    /\ At("metrics")
    /\ Goto("ooms")
    /\ \E Sampled \in SUBSET (Metered \cap DOMAIN memory.containers) :
       \E usage \in [Sampled -> 0 .. MaxUsage], time \in 1 .. now :
          LET After(c) == addMemorySample(memory.containers[c], memory.live[c],
                                          time, usage[c], FALSE)
          IN  /\ \/ time = now /\ UNCHANGED faults
                 \/ time < now /\ time >= now - MaxLag /\ Fault
              /\ disturbed' = disturbed \cup Outdated(Sampled, time)
              /\ memory' = [memory EXCEPT
                    !.containers = [c \in DOMAIN @ |->
                        IF c \in Sampled THEN After(c).state ELSE @[c]],
                    !.live = [c \in DOMAIN @ |->
                        IF c \in Sampled THEN After(c).live ELSE @[c]]]
    /\ UNCHANGED <<now, api, streams, channel, events, forgotten, recorded>>

\* RecordOOM: not if the OOM is older than the current window.
TooOld(state, time) == time < state.windowEnd - Interval

\* Mutant: an OOM asks for no more than was used.
NoBumpUp(state) == Larger(Request, state.memoryPeak)

MemoryNeeded(state) == Larger(Request, state.memoryPeak) + OOMBumpUp

\* LoadRealTimeMetrics takes one OOM from the channel.
RecordOOM ==
    LET info  == Head(channel)
        c     == info.container
        state == memory.containers[c]
        after == addMemorySample(state, memory.live[c], info.time,
                                 MemoryNeeded(state), TRUE)
    IN  /\ At("ooms")
        /\ channel # <<>>
        /\ channel' = Tail(channel)
        /\ IF c \notin DOMAIN memory.containers \/ TooOld(state, info.time)
           THEN UNCHANGED <<memory, disturbed, recorded>>
           ELSE /\ memory' = [memory EXCEPT !.containers[c] = after.state,
                                            !.live[c] = after.live]
                /\ disturbed' = disturbed \cup Outdated({c}, info.time)
                /\ recorded' = recorded \cup {info}
        /\ UNCHANGED <<now, api, streams, loop, faults, events, forgotten>>

-----------------------------------------------------------------------------
(* Writing checkpoints.                                                    *)

\* getVpasToCheckpoint: the VPAs by the time of their last checkpoint.
VpasToCheckpoint ==
    LET V == {v \in Vpas : memory.known[v] # "no"}
    IN  {q \in [1 .. Cardinality(V) -> V] :
            /\ {q[i] : i \in DOMAIN q} = V
            /\ \A i, j \in DOMAIN q : i < j => memory.written[q[i]] <= memory.written[q[j]]}

StoreCheckpoints ==
    /\ \E q \in VpasToCheckpoint :
          loop' = [loop EXCEPT !.pc = "store", !.todo = q, !.budget = MinCheckpoints,
                               !.start = now]
    /\ UNCHANGED <<now, api, streams, channel, memory, faults, events,
                   forgotten, disturbed, recorded>>

\* Mutant: the channel may still hold OOMs.
MaintainUndrained == At("ooms") /\ StoreCheckpoints

\* The drained channel ends LoadRealTimeMetrics; StoreCheckpoints begins.
MaintainCheckpoints ==
    /\ At("ooms")
    /\ channel = <<>>
    /\ StoreCheckpoints

\* The containers in buildAggregateContainerStateMap of v.
Aggregated(v) ==
    {c \in Containers :
        /\ VpaOf[c] = v
        /\ \/ c \in DOMAIN memory.live /\ MatchesVPA(c)
           \/ c \in DOMAIN memory.initial}

\* Ranks without gaps.
Ranked(written) ==
    [v \in Vpas |->
        IF written[v] = 0 THEN 0
        ELSE 1 + Cardinality({written[u] : u \in {w \in Vpas :
                                 written[w] > 0 /\ written[w] < written[v]}})]

\* StoreCheckpoints comes to the next VPA, or to its end.
NextVpa ==
    /\ At("store")
    /\ loop.pending = {}
    /\ \E expired \in BOOLEAN :
          /\ loop.expired => expired
          /\ IF loop.todo = <<>> \/ (expired /\ loop.budget = 0)
             THEN /\ \E collects \in BOOLEAN :
                        loop' = [NewLoop EXCEPT !.pc = IF collects THEN "gc" ELSE "vpas"]
                  /\ memory' = [memory EXCEPT !.written = Ranked(@)]
             ELSE /\ loop' = [loop EXCEPT !.expired = expired,
                                          !.todo = Tail(@),
                                          !.pending = Aggregated(Head(loop.todo))]
                  /\ UNCHANGED memory
    /\ UNCHANGED <<now, api, streams, channel, faults, events,
                   forgotten, disturbed, recorded>>

\* AggregateStateByContainerName: what was aggregated and what was restored.
AggregateState(c) ==
    (IF MatchesVPA(c) THEN Entries(memory.live, c) ELSE EmptyBag)
        (+) Entries(memory.initial, c)

\* Mutant: the peak of the current window stays in the checkpoint.
CheckpointWithCurrentPeak(c) == AggregateState(c)

\* Mutant: the state that was restored is not merged.
CheckpointWithoutInitial(c) == Entries(memory.live, c)

\* What buildAggregateContainerStateMap has for c.
Checkpoint(c) ==
    LET state   == memory.containers[c]
        current == IF /\ MatchesVPA(c)
                      /\ c \in DOMAIN memory.containers
                      /\ loop.start < state.windowEnd
                   THEN Peak(state.windowEnd, GetMaxMemoryPeak(state))
                   ELSE EmptyBag
    IN  AggregateState(c) (-) current

\* CreateOrUpdateVpaCheckpoint of c has returned.  A failed one counts, too.
Attempted(c) ==
    loop' = [loop EXCEPT !.pending = @ \ {c}, !.budget = IF @ > 0 THEN @ - 1 ELSE 0]

\* Mutant: CheckpointWritten is not set.
NotWritten(v) == memory

Written(v) == [memory EXCEPT !.written[v] = Cardinality(Vpas) + 1]

SaveCheckpoint(c) ==
    /\ At("store")
    /\ c \in loop.pending
    /\ api' = [api EXCEPT !.saved = [d \in DOMAIN @ \cup {c} |->
                                        IF d = c THEN Checkpoint(c) ELSE @[d]],
                          !.savedAt[c] = loop.start]
    /\ memory' = Written(VpaOf[c])
    /\ Attempted(c)
    /\ UNCHANGED <<now, streams, channel, faults, events, forgotten, disturbed, recorded>>

FailToSaveCheckpoint(c) ==
    /\ At("store")
    /\ c \in loop.pending
    /\ Attempted(c)
    /\ UNCHANGED <<now, api, streams, channel, memory, faults, events,
                   forgotten, disturbed, recorded>>

\* GarbageCollectCheckpoints, after its LoadVPAs: the checkpoints C are deleted of
\* those whose VPA is not in the model.
GarbageCollectCheckpoints ==
    /\ At("collect")
    /\ Goto("vpas")
    /\ \E C \in SUBSET {c \in Containers : memory.known[VpaOf[c]] = "no"} :
          api' = [api EXCEPT !.saved = [c \in DOMAIN @ \ C |-> @[c]]]
    /\ UNCHANGED <<now, streams, channel, memory, faults, events,
                   forgotten, disturbed, recorded>>

-----------------------------------------------------------------------------

RunOnce ==
    \/ LoadVPAs
    \/ InitFromCheckpoints
    \/ LoadPods
    \/ LoadRealTimeMetrics
    \/ RecordOOM
    \/ MaintainCheckpoints
    \/ NextVpa
    \/ \E c \in Containers : SaveCheckpoint(c) \/ FailToSaveCheckpoint(c)
    \/ GarbageCollectCheckpoints

Next ==
    \/ Tick
    \/ \E v \in Vpas : CreateVpa(v) \/ DeleteVpa(v)
    \/ \E c \in Killed : OOMKill(c) \/ Evict(c)
    \/ Crash
    \/ Restart
    \/ \E s \in Sources : Observe(s)
    \/ Rewatch
    \/ RunOnce

Spec == Init /\ [][Next]_vars

\* The process restarts and its loop and the observer go on; the API server does not
\* refuse a checkpoint for ever.
Fairness ==
    /\ WF_vars(Restart)
    /\ WF_vars(RunOnce)
    /\ \A s \in Sources : WF_vars(Observe(s))
    /\ \A c \in Containers : SF_vars(SaveCheckpoint(c))

FairSpec == Spec /\ Fairness

-----------------------------------------------------------------------------
(* Properties.                                                             *)

InWindow(time, peak) == peak[1] - Interval <= time /\ time < peak[1]

\* "Each container aggregates one peak per aggregation interval": in what the
\* recommendations are made from, restored and gathered since, the windows of a
\* container's peaks do not overlap, whenever the process crashed and whatever was
\* reported twice; unless a sample is older than the checkpoint restored.
OnePeakPerInterval ==
    \A c \in Containers \ disturbed :
        LET peaks == Entries(memory.live, c) (+) Entries(memory.initial, c)
        IN  \A p, q \in DOMAIN peaks :
                /\ peaks[p] = 1
                /\ p # q => p[1] - q[1] >= Interval \/ q[1] - p[1] >= Interval

Covers(new, old) ==
    \A p \in DOMAIN old : \E q \in DOMAIN new : q[1] = p[1] /\ q[2] >= p[2]

\* A peak that a checkpoint holds stays in the checkpoints that replace it, over
\* any number of restarts; unless the process failed to restore the checkpoint or
\* has dropped the VPA that it had restored it into.
HistoryKept ==
    [][\A c \in DOMAIN api.saved \ forgotten :
          /\ c \in DOMAIN api'.saved
          /\ Covers(api'.saved[c], api.saved[c])]_vars

\* The peak of the window is above what a container asks for; or the window began with
\* a sample of no memory: addMemorySample takes its peak of zero for none, and adds no
\* other sample of the window (Disagreement 10).
Counts(time, peak) ==
    /\ InWindow(time, peak)
    /\ peak[2] = 0 \/ peak[2] >= Request + OOMBumpUp

\* An OOM that RecordOOM has accepted counts in the aggregation, whatever comes later:
\* the peak of the window it happened in is above what the container had asked for.
OOMCounted ==
    \A info \in recorded :
        \E p \in DOMAIN memory.live[info.container] : Counts(info.time, p)

\* The checkpoint of a container that stays under a VPA is written again and again,
\* however short the time for it and whichever others fail on the way.
CheckpointsGoOn ==
    \A c \in Containers :
        <>[](memory.known[VpaOf[c]] = "selects" /\ c \in DOMAIN memory.live)
            => []<><<SaveCheckpoint(c)>>_vars

\* The observer's sources never wait for ever on the full channel.
ObserverUnblocked == \A s \in Sources : streams[s] # <<>> ~> streams[s] = <<>>
=============================================================================
