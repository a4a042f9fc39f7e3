CONSTANTS
    Pods = {p1, p2}
    AffinityPods = {p1}
    Nodes = {n1, n2}
    Images = {i1}
    p1 = p1
    p2 = p2
    n1 = n1
    n2 = n2
    NoNode = NoNode
    NoItem = NoItem
    NoState = NoState
    MaxGeneration = 5
SYMMETRY NodeSymmetry
SPECIFICATION Spec
INVARIANTS
    NoFatalBranch
    StoreExact
    SnapshotCopies
PROPERTIES
    KeptWhileBinding
    SnapshotRecovers
    ImplementsInterface
