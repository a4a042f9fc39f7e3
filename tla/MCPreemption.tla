---------------------------- MODULE MCPreemption ----------------------------
(* Instances of Preemption for TLC. *)
EXTENDS Preemption, TLC

CONSTANTS n1, n2, n3

MCLabels ==
    n1 :> ("zone" :> "z1" @@ "host" :> "h1" @@ "rack" :> "r1") @@
    n2 :> ("zone" :> "z1" @@ "host" :> "h2") @@
    n3 :> ("zone" :> "z2" @@ "host" :> "h3" @@ "rack" :> "r3")

\* The third node is small and has the only gpu.
MCAlloc ==
    [n \in Nodes |-> "pods" :> 3 @@ "cpu" :> (IF n = n3 THEN 2 ELSE 4) @@ "memory" :> 4 @@
                     "gpu" :> IF n = n3 THEN 1 ELSE 0]

MCNodeSpec ==
    [n \in Nodes |-> [unschedulable |-> FALSE,
                      preferTaints |-> IF n = n2 THEN 1 ELSE 0,
                      images |-> IF n = n2 THEN {} ELSE {"img"}]]

Plain ==
    [ns |-> "ns", labels |-> {}, terminating |-> FALSE, nodeSelector |-> {}, requiredNodeTerms |-> FALSE,
     nodeName |-> None, constraints |-> <<>>, affinity |-> {}, antiAffinity |-> {}, prefers |-> {},
     avoids |-> {}, containers |-> << <<>> >>, inits |-> <<>>, overhead |-> <<>>, ports |-> {},
     volumes |-> {}, images |-> <<"img">>, preferredNodeWeight |-> 0, preempts |-> TRUE]

Term(key, label) == [key |-> key, namespaces |-> {"ns"}, selector |-> {label}]
Weighed(key, label, w) == [key |-> key, namespaces |-> {"ns"}, selector |-> {label}, weight |-> w]
Constraint(key, skew, action, label) ==
    [key |-> key, skew |-> skew, action |-> action, selector |-> {label}]
Disk(readOnly) == [kind |-> "gce", id |-> "d", monitors |-> {}, readOnly |-> readOnly]
Port(ip) == [ip |-> ip, port |-> 80]

\* Pods to schedule: two that spread, one of them by a key a node lacks, one that keeps away from others and needs a
\* port, a disk and much cpu, one that wants company, one that spreads over part of
\* the nodes, one that needs a whole node and one that no node matches.
MCPodSpec ==
    "spreading" :> [Plain EXCEPT !.labels = {"app"},
                        !.constraints = <<Constraint("zone", 1, "hard", "app"),
                                          Constraint("host", 2, "hard", "app")>>] @@
    "racked" :> [Plain EXCEPT !.labels = {"app"},
                        !.constraints = <<Constraint("zone", 1, "hard", "app"),
                                          Constraint("rack", 2, "hard", "app")>>] @@
    "lonely" :> [Plain EXCEPT !.antiAffinity = {Term("host", "db")}, !.ports = {Port("0.0.0.0")},
                        !.volumes = {Disk(TRUE)}, !.preferredNodeWeight = 3,
                        !.containers = <<("cpu" :> 2 @@ "memory" :> 1), "cpu" :> 1>>] @@
    "social" :> [Plain EXCEPT !.labels = {"web"}, !.affinity = {Term("zone", "web")},
                        !.prefers = {Weighed("host", "app", 2)}, !.avoids = {Weighed("zone", "db", 3)},
                        !.constraints = <<Constraint("rack", 2, "soft", "app"),
                                          Constraint("host", 1, "soft", "app")>>] @@
    "picky" :> [Plain EXCEPT !.labels = {"app"}, !.nodeSelector = {<<"rack", "r1">>},
                        !.containers = <<"cpu" :> 4>>,
                        !.constraints = <<Constraint("host", 1, "hard", "app")>>] @@
    "big" :> [Plain EXCEPT !.containers = <<"cpu" :> 3>>, !.inits = <<"cpu" :> 4>>] @@
    "nowhere" :> [Plain EXCEPT !.requiredNodeTerms = TRUE] @@
    "app1" :> [Plain EXCEPT !.labels = {"app"}, !.containers = <<"cpu" :> 1>>,
                        !.antiAffinity = {Term("host", "web")}] @@
    "app2" :> [Plain EXCEPT !.labels = {"app", "web"}, !.containers = <<"cpu" :> 1>>,
                        !.prefers = {Weighed("zone", "web", 1)}] @@
    "db" :> [Plain EXCEPT !.labels = {"db"}, !.ports = {Port("10.0.0.1")}, !.volumes = {Disk(FALSE)},
                        !.containers = <<"cpu" :> 2 @@ "memory" :> 1>>, !.overhead = "memory" :> 1] @@
    "old" :> [Plain EXCEPT !.labels = {"app"}, !.terminating = TRUE, !.containers = <<"cpu" :> 1>>]

MCPods == DOMAIN MCPodSpec
MCIncoming == {"spreading", "racked", "lonely", "social", "picky", "big", "nowhere"}
MCPlaceable ==
    "old" :> {n2} @@ "app1" :> {n1, n2} @@ "app2" :> Nodes @@ "db" :> {n1, n3} @@
    [p \in MCIncoming |-> {}]
MCNominable == {"app2", "lonely"}

MCPriority ==
    "spreading" :> 1 @@ "racked" :> 1 @@ "lonely" :> 2 @@ "social" :> 1 @@ "picky" :> 1 @@ "big" :> 2 @@ "nowhere" :> 0 @@
    "app1" :> 0 @@ "app2" :> 1 @@ "db" :> -1 @@ "old" :> 0
MCStartTime ==
    "spreading" :> 0 @@ "racked" :> 0 @@ "lonely" :> 0 @@ "social" :> 0 @@ "picky" :> 0 @@ "big" :> 0 @@ "nowhere" :> 0 @@
    "app1" :> 1 @@ "app2" :> 2 @@ "db" :> 3 @@ "old" :> 1

MCOwners == {[ns |-> "ns", selector |-> {"app"}]}
MCDefaults == <<Constraint("zone", 2, "soft", "none"), Constraint("host", 3, "hard", "none")>>
MCDefaultRequest == "cpu" :> 1 @@ "memory" :> 1
MCWeights == "cpu" :> 1 @@ "memory" :> 2
MCShape == <<[utilization |-> 0, score |-> 100], [utilization |-> 60, score |-> 30],
             [utilization |-> 100, score |-> 0]>>
MCLogarithm == [x \in 2 .. 5 |-> <<0, 693, 1098, 1386, 1609>>[x]]
MCImageSizes == "img" :> 40
=============================================================================
