CONSTANTS
    n1 = n1
    n2 = n2
    n3 = n3
    Nodes = {n1, n2, n3}
    None = None
    Pods <- MCPods
    Labels <- MCLabels
    Alloc <- MCAlloc
    NodeSpec <- MCNodeSpec
    PodSpec <- MCPodSpec
    Owners <- MCOwners
    DefaultConstraints <- MCDefaults
    Hostname = "host"
    Logarithm <- MCLogarithm
    HardPodAffinityWeight = 1
    Native = {"cpu", "memory"}
    Scalar = {"gpu"}
    DefaultRequest <- MCDefaultRequest
    Weights <- MCWeights
    Shape <- MCShape
    ImageSizes <- MCImageSizes
    MinThreshold = 5
    MaxContainerThreshold = 30
    Priority <- MCPriority
    StartTime <- MCStartTime
    Incoming <- MCIncoming
    Placeable <- MCPlaceable
    Nominable <- MCNominable
SPECIFICATION Spec
CHECK_DEADLOCK FALSE
INVARIANTS
    DryRunExact
    VictimsJustified
    MoreImportantSpared
    BestCandidate
    ScoresInRange
