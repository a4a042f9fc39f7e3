CONSTANTS
    Pods = {p1}
    Nodes = {n1}
    Slots = {s1}
    p1 = p1
    p2 = p2
    n1 = n1
    n2 = n2
    s1 = s1
    NoNode = NoNode
    NoPod = NoPod
    Preemption = FALSE
    Events = {"podUpdated", "podDeleted", "boundElsewhere", "nodeChanged"}
SPECIFICATION FairSpec
PROPERTIES
    Retried
    DeletedLeaves
    AssumptionsEnd
