CONSTANTS
    Pods = {p1, p2, p3}
    Nodes = {n1, n2}
    p1 = p1
    p2 = p2
    p3 = p3
    n1 = n1
    n2 = n2
    NoNode = NoNode
SYMMETRY PodAndNodeSymmetry
SPECIFICATION QueueSpec
INVARIANTS
    OnePlace
    NoMissedWakeup
